---------------------------- MODULE Spec2Model ----------------------------
(***************************************************************************)
(* HDTV plugin layer: configuration commands (hdtv/plugins/config.py),     *)
(* spectrum interface (plugins/specInterface.py) and fit interface         *)
(* (hdtv/plugins/fitInterface.py).                                         *)
(*                                                                         *)
(* Strings that the code parses are sequences of one-character strings so  *)
(* that float(), int() and the id parser are computed character by         *)
(* character.  Python floats are kept as exact decimals                    *)
(* [neg, m, e] = (-1)^neg * m / 10^e, normalised (no trailing zero).       *)
(***************************************************************************)
EXTENDS Integers, Sequences, FiniteSets, TLC

(***************************************************************************)
(* Bounds of the model                                                     *)
(***************************************************************************)
\* longest enumerated raw value of `config set`
MaxRawLen == 2

\* most spectra held by the Spectra container
MaxSpectra == 3

\* most markers set by hand on the work fit
MaxMarkers == 2

\* most fits stored in the fit container of one spectrum
MaxFits == 2

\* largest id typed in the id expressions of `fit show` and `fit hide`
MaxId == 3

(***************************************************************************)
(* Characters and numbers                                                  *)
(***************************************************************************)
Digits == <<"0", "1", "2", "3", "4", "5", "6", "7", "8", "9">>

IsDigit(c) == \E i \in 1..Len(Digits) : Digits[i] = c

DigitVal(c) == (CHOOSE i \in 1..Len(Digits) : Digits[i] = c) - 1

UpperCase == <<"A", "B", "C", "D", "E", "F", "G", "H", "I", "J", "K", "L", "M",
               "N", "O", "P", "Q", "R", "S", "T", "U", "V", "W", "X", "Y", "Z">>

LowerCase == <<"a", "b", "c", "d", "e", "f", "g", "h", "i", "j", "k", "l", "m",
               "n", "o", "p", "q", "r", "s", "t", "u", "v", "w", "x", "y", "z">>

\* str.lower() on one character
LowerChar(c) ==
    IF \E i \in 1..Len(UpperCase) : UpperCase[i] = c
    THEN LowerCase[CHOOSE i \in 1..Len(UpperCase) : UpperCase[i] = c]
    ELSE c

\* str.lower()
Lower(s) == [i \in 1..Len(s) |-> LowerChar(s[i])]

AllDigits(s) == \A i \in 1..Len(s) : IsDigit(s[i])

RECURSIVE DigitsToNat(_)
\* value of a sequence of decimal digits (0 for the empty sequence)
DigitsToNat(s) ==
    IF s = <<>> THEN 0
    ELSE 10 * DigitsToNat(SubSeq(s, 1, Len(s) - 1)) + DigitVal(s[Len(s)])

RECURSIVE NatToDigits(_)
\* decimal digits of a natural number, "0" for 0
NatToDigits(n) ==
    IF n < 10 THEN <<Digits[n + 1]>>
    ELSE NatToDigits(n \div 10) \o <<Digits[(n % 10) + 1]>>

RECURSIVE Pow10(_)
Pow10(k) == IF k = 0 THEN 1 ELSE 10 * Pow10(k - 1)

RECURSIVE Normalise(_, _)
\* strip the trailing zeros of the fraction: m / 10^e with e minimal
Normalise(m, e) ==
    IF e > 0 /\ m % 10 = 0 THEN Normalise(m \div 10, e - 1)
    ELSE [m |-> m, e |-> e]

\* index of the first occurrence of character c in s, 0 if there is none
IndexOf(s, c) ==
    IF \E i \in 1..Len(s) : s[i] = c
    THEN CHOOSE i \in 1..Len(s) : s[i] = c /\ \A j \in 1..(i - 1) : s[j] # c
    ELSE 0

\* all sequences over alphabet A of length at most n
SeqsUpTo(A, n) == UNION {[1..k -> A] : k \in 0..n}

\* index of the last occurrence of character c in s, 0 if there is none
LastIndexOf(s, c) ==
    IF \E i \in 1..Len(s) : s[i] = c
    THEN CHOOSE i \in 1..Len(s) : s[i] = c /\ \A j \in (i + 1)..Len(s) : s[j] # c
    ELSE 0

RECURSIVE SplitOn(_, _)
\* str.split(c): the pieces between the occurrences of c, empty ones included
SplitOn(s, c) ==
    LET i == IndexOf(s, c)
    IN  IF i = 0 THEN <<s>>
        ELSE <<SubSeq(s, 1, i - 1)>> \o SplitOn(SubSeq(s, i + 1, Len(s)), c)

RECURSIVE DropEmpty(_)
DropEmpty(parts) ==
    IF parts = <<>> THEN <<>>
    ELSE IF Head(parts) = <<>> THEN DropEmpty(Tail(parts))
    ELSE <<Head(parts)>> \o DropEmpty(Tail(parts))

\* str.split(): the words between runs of blanks
SplitBlank(s) == DropEmpty(SplitOn(s, " "))

RECURSIVE Strip(_)
\* str.strip() of blanks
Strip(s) ==
    IF s = <<>> THEN s
    ELSE IF Head(s) = " " THEN Strip(Tail(s))
    ELSE IF s[Len(s)] = " " THEN Strip(SubSeq(s, 1, Len(s) - 1))
    ELSE s

\* Python int(x): blanks stripped, optional sign, decimal digits
ParseInt(x) ==
    LET t      == Strip(x)
        signed == Len(t) > 0 /\ t[1] \in {"-", "+"}
        body   == IF signed THEN Tail(t) ELSE t
    IN  IF Len(body) > 0 /\ AllDigits(body)
        THEN [ok |-> TRUE,
              v  |-> IF Len(t) > 0 /\ t[1] = "-" THEN 0 - DigitsToNat(body)
                     ELSE DigitsToNat(body)]
        ELSE [ok |-> FALSE, v |-> 0]

RECURSIVE GlobMatch(_, _)
\* fnmatch of a name against a pattern with * and ?
GlobMatch(pat, name) ==
    IF pat = <<>> THEN name = <<>>
    ELSE IF Head(pat) = "*"
         THEN \/ GlobMatch(Tail(pat), name)
              \/ (name # <<>> /\ GlobMatch(pat, Tail(name)))
    ELSE /\ name # <<>>
         /\ (Head(pat) = "?" \/ Head(pat) = Head(name))
         /\ GlobMatch(Tail(pat), Tail(name))

RECURSIVE SeqFilterIn(_, _)
\* the members of sequence s that are in set S, in order
SeqFilterIn(s, S) ==
    IF s = <<>> THEN <<>>
    ELSE IF Head(s) \in S THEN <<Head(s)>> \o SeqFilterIn(Tail(s), S)
    ELSE SeqFilterIn(Tail(s), S)

\* the set of members of a sequence
Range(s) == {s[i] : i \in 1..Len(s)}

RECURSIVE SortedSeq(_)
\* the members of a finite set of integers in increasing order
SortedSeq(S) ==
    IF S = {} THEN <<>>
    ELSE LET m == CHOOSE x \in S : \A y \in S : x <= y
         IN  <<m>> \o SortedSeq(S \ {m})

(***************************************************************************)
(* Values held by options: one record shape for float, bool and str        *)
(***************************************************************************)
FloatV(neg, m, e) ==
    LET nz == Normalise(m, e)
    IN  [t |-> "float", neg |-> neg, m |-> nz.m, e |-> nz.e, s |-> <<>>]

BoolV(b) == [t |-> "bool", neg |-> FALSE, m |-> IF b THEN 1 ELSE 0, e |-> 0, s |-> <<>>]

StrV(s) == [t |-> "str", neg |-> FALSE, m |-> 0, e |-> 0, s |-> s]

NoValue == [t |-> "none", neg |-> FALSE, m |-> 0, e |-> 0, s |-> <<>>]

\* result of a parse function: a value, or ValueError
Parsed(v) == [ok |-> TRUE, val |-> v]

ValueError == [ok |-> FALSE, val |-> NoValue]

\* Python float(x) on a string of sign, digits and at most one point
ParseFloat(x) ==
    LET signed == Len(x) > 0 /\ x[1] \in {"-", "+"}
        neg    == Len(x) > 0 /\ x[1] = "-"
        body   == IF signed THEN Tail(x) ELSE x
        dot    == IndexOf(body, ".")
        ipart  == IF dot = 0 THEN body ELSE SubSeq(body, 1, dot - 1)
        fpart  == IF dot = 0 THEN <<>> ELSE SubSeq(body, dot + 1, Len(body))
    IN  IF AllDigits(ipart) /\ AllDigits(fpart) /\ Len(ipart) + Len(fpart) > 0
        THEN Parsed(FloatV(neg, DigitsToNat(ipart \o fpart), Len(fpart)))
        ELSE ValueError

\* hdtv.options.ParseBool: "true"/"false" in any case
ParseBool(x) ==
    IF Lower(x) = <<"t", "r", "u", "e">> THEN Parsed(BoolV(TRUE))
    ELSE IF Lower(x) = <<"f", "a", "l", "s", "e">> THEN Parsed(BoolV(FALSE))
    ELSE ValueError

\* the parse function of an Option built without one: the raw string itself
ParseStr(x) == Parsed(StrV(x))

\* Python str() of a float: integer part, point, fraction (at least one digit)
FloatStr(v) ==
    LET p     == Pow10(v.e)
        ipart == NatToDigits(v.m \div p)
        fnum  == v.m % p
        fdig  == IF v.e = 0 THEN <<"0">>
                 ELSE LET d == NatToDigits(fnum)
                      IN  [i \in 1..(v.e - Len(d)) |-> "0"] \o d
    IN  (IF v.neg THEN <<"-">> ELSE <<>>) \o ipart \o <<".">> \o fdig

\* Python str() of an option value
ValueStr(v) ==
    CASE v.t = "float" -> FloatStr(v)
      [] v.t = "bool"  -> IF v.m = 1 THEN <<"T", "r", "u", "e">>
                          ELSE <<"F", "a", "l", "s", "e">>
      [] OTHER         -> v.s

(***************************************************************************)
(* State                                                                   *)
(***************************************************************************)
VARIABLES
    variables,   \* hdtv.options.variables: option name -> [value, default]
    cmd,         \* the last config command: arguments, outcome, output
    showDecomp,  \* hdtv.fit.Fit.showDecomp
    spectra,     \* the Spectra container: objects, activeID, visible
    heap,        \* the Fit objects, by reference
    workFit,     \* reference of the session's work fit
    viewport,    \* window.viewport: depth of LockUpdate
    cwd,         \* the working directory of the process: the names from the root down
    ret          \* the last spectrum/fit operation: arguments, outcome, output

\* no config command ran last
NoCmd ==
    [op |-> "none", var |-> "", raw |-> <<>>, result |-> "ok", msg |-> "none",
     out |-> <<>>, ccb |-> <<>>]

(***************************************************************************)
(* Options store (hdtv.options) and the options the fit plugin registers   *)
(***************************************************************************)
\* options registered by FitInterface.__init__ and TvFitInterface.__init__
RegisteredOptions ==
    ("fit.quickfit.region" :> [value   |-> FloatV(FALSE, 200, 1),
                               default |-> FloatV(FALSE, 200, 1)])
    @@ ("fit.display.decomp" :> [value |-> BoolV(FALSE), default |-> BoolV(FALSE)])
    @@ ("fit.list.sort_key" :> [value   |-> StrV(<<"I", "D">>),
                                default |-> StrV(<<"I", "D">>)])

\* the parse function each option was registered with
OptionParse(name, raw) ==
    CASE name = "fit.quickfit.region" -> ParseFloat(raw)
      [] name = "fit.display.decomp"  -> ParseBool(raw)
      [] OTHER                        -> ParseStr(raw)

\* whether the option was registered with a changeCallback
HasCallback(name) == name = "fit.display.decomp"

\* hdtv.options.Set: look up, parse, call back, store
OptionsSet(opts, name, raw) ==
    IF name \notin DOMAIN opts
    THEN [exc |-> "KeyError", vars |-> opts, ccb |-> <<>>]
    ELSE LET p == OptionParse(name, raw)
         IN  IF ~p.ok
             THEN [exc |-> "ValueError", vars |-> opts, ccb |-> <<>>]
             ELSE [exc  |-> "none",
                   vars |-> [opts EXCEPT ![name].value = p.val],
                   ccb  |-> IF HasCallback(name) THEN <<p.val>> ELSE <<>>]

\* hdtv.options.Show: the value of one option as text
OptionsShow(opts, name) ==
    IF name \notin DOMAIN opts
    THEN [exc |-> "KeyError", text |-> <<>>]
    ELSE [exc |-> "none", text |-> ValueStr(opts[name].value)]

\* hdtv.options.Reset: back to the default value
OptionsReset(opts, name) ==
    IF name \notin DOMAIN opts
    THEN [exc |-> "KeyError", vars |-> opts]
    ELSE [exc |-> "none", vars |-> [opts EXCEPT ![name].value = opts[name].default]]

\* hdtv.options.Get
OptionsGet(opts, name) == opts[name].value

(***************************************************************************)
(* Containers (Spectra, the Fits of one spectrum): a mapping from id to    *)
(* object, an active id (None or one id) and a visible set                 *)
(***************************************************************************)
None == <<>>

Some(x) == <<x>>

EmptyMap == [x \in {} |-> x]

Put(m, k, v) == [x \in DOMAIN m \cup {k} |-> IF x = k THEN v ELSE m[x]]

Without(m, K) == [x \in DOMAIN m \ K |-> m[x]]

EmptyContainer == [objects |-> EmptyMap, activeID |-> None, visible |-> {}]

Keys(c) == DOMAIN c.objects

\* the smallest non-negative integer that is not a key
GetFreeID(c) ==
    CHOOSE i \in 0..Cardinality(Keys(c)) :
        i \notin Keys(c) /\ \A j \in 0..(i - 1) : j \in Keys(c)

\* container[ID] = obj: the object is stored and displayed
Insert(c, ID, obj) ==
    [c EXCEPT !.objects = Put(@, ID, obj), !.visible = @ \cup {ID}]

\* ActivateObject(ID): KeyError for an id that is not a key, None deactivates
ActivateObject(c, ID) ==
    IF ID # None /\ ID[1] \notin Keys(c)
    THEN [exc |-> "KeyError", c |-> c]
    ELSE [exc |-> "none", c |-> [c EXCEPT !.activeID = ID]]

\* ShowObjects(ids): exactly the existing ones of ids are visible afterwards
ShowObjects(c, ids) == [c EXCEPT !.visible = ids \cap Keys(c)]

HideObjects(c, ids) == [c EXCEPT !.visible = @ \ ids]

HideAll(c) == [c EXCEPT !.visible = {}]

ShowAll(c) == [c EXCEPT !.visible = Keys(c)]

\* RemoveObjects(ids): the existing ones of ids leave the mapping, the
\* visible set and, if among them, the active id
RemoveObjects(c, ids) ==
    [objects  |-> Without(c.objects, ids),
     activeID |-> IF c.activeID # None /\ c.activeID[1] \in ids THEN None
                  ELSE c.activeID,
     visible  |-> c.visible \ ids]

\* GetActiveObject(): the active object, or None
GetActiveObject(c) ==
    IF c.activeID = None THEN None ELSE Some(c.objects[c.activeID[1]])

(***************************************************************************)
(* Collaborators of the spectrum interface                                 *)
(***************************************************************************)
\* hdtv.color.ColorForID: a colour derived from the id
ColorForID(ID, satur, value) == [hue |-> ID, satur |-> satur, value |-> value]

\* the directory listing glob.glob() matches against
FileNames == << <<"a">>, <<"b">>, <<"b", "a", "d">>, <<"l", "k">> >>

HomeDir == <<"/", "h", "/">>

\* os.path.expanduser
ExpandUser(path) ==
    IF Len(path) > 0 /\ path[1] = "~"
    THEN HomeDir \o SubSeq(path, IF Len(path) > 1 /\ path[2] = "/" THEN 3 ELSE 2, Len(path))
    ELSE path

\* the directories of the file system, each the names from the root down
RootDir == <<>>

Directories ==
    { RootDir, <<<<"t", "m", "p">>>>, <<<<"t", "m", "p">>, <<"a">>>>, <<<<"t", "m", "p">>, <<"a">>, <<"b">>>>, <<<<"h">>>>, <<<<"h">>, <<"d">>>>, <<<<"v", "a", "r">>>>, <<<<"l", "o", "c", "k">>>>, <<<<"l", "o", "c", "k">>, <<"i", "n">>>> }

\* the directories the process may not enter
Forbidden == { <<<<"l", "o", "c", "k">>>> }

Parent(dir) == IF dir = <<>> THEN dir ELSE SubSeq(dir, 1, Len(dir) - 1)

RECURSIVE Walk(_, _)
\* the directory the names lead to from dir, each step into a directory that
\* exists and may be entered; or the failure
Walk(dir, names) ==
    IF names = <<>> THEN [ok |-> TRUE, dir |-> dir]
    ELSE LET n    == Head(names)
             next == CASE n \in {<<>>, <<".">>} -> dir
                       [] n = <<".", ".">>     -> Parent(dir)
                       [] OTHER                -> Append(dir, n)
         IN  IF next \in Directories \ Forbidden
             THEN Walk(next, Tail(names))
             ELSE [ok |-> FALSE, dir |-> dir]

\* os.chdir(path) with the working directory dir: the new working directory,
\* or OSError
Chdir(dir, path) ==
    IF path = <<>> THEN [ok |-> FALSE, dir |-> dir]
    ELSE Walk(IF path[1] = "/" THEN RootDir ELSE dir, SplitOn(path, "/"))

RECURSIVE GlobIn(_, _)
GlobIn(names, path) ==
    IF names = <<>> THEN <<>>
    ELSE (IF GlobMatch(path, Head(names)) THEN <<Head(names)>> ELSE <<>>)
             \o GlobIn(Tail(names), path)

\* glob.glob(path): the existing files that match
Glob(path) == GlobIn(FileNames, path)

\* FileSpectrum(fname, fmt): the spectrum read, or the exception raised
FileSpectrum(fname, fmt) ==
    LET exc == CASE fname = <<"b", "a", "d">>               -> "SpecReaderError"
                 [] fname = <<"l", "k">>                    -> "OSError"
                 [] fmt # None /\ fmt # Some(<<"l", "c">>)  -> "SpecReaderError"
                 [] OTHER                                   -> "none"
    IN  [exc  |-> exc,
         spec |-> [name |-> fname, fHist |-> Some(fname), color |-> None, cal |-> <<>>,
                   fits |-> EmptyContainer]]

SetColor(spec, color) == [spec EXCEPT !.color = Some(color)]

\* viewport.LockUpdate / UnlockUpdate
LockUpdate(vp) == [vp EXCEPT !.locks = @ + 1]

UnlockUpdate(vp) == [vp EXCEPT !.locks = IF @ > 0 THEN @ - 1 ELSE 0]

\* hdtv.cmdhelper.ParseRange of one token: an id or an inclusive range a-b
ParseRangeToken(tok) ==
    LET r == SplitOn(tok, "-")
    IN  IF Len(r) = 1
        THEN LET a == ParseInt(r[1])
             IN  [ok |-> a.ok, ids |-> IF a.ok THEN {a.v} ELSE {}]
        ELSE IF Len(r) = 2
        THEN LET a == ParseInt(r[1])
                 b == ParseInt(r[2])
             IN  [ok |-> a.ok /\ b.ok, ids |-> IF a.ok /\ b.ok THEN a.v..b.v ELSE {}]
        ELSE [ok |-> FALSE, ids |-> {}]

IsWord(tok, w) == Lower(tok) = w

\* hdtv.cmdhelper.ParseRange: "ALL", "NONE", a set of ids, or ValueError
ParseRange(args) ==
    LET special(i) == IsWord(args[i], <<"a", "l", "l">>)
                          \/ IsWord(args[i], <<"n", "o", "n", "e">>)
        bad(i)     == ~special(i) /\ ~ParseRangeToken(args[i]).ok
        stop       == {i \in 1..Len(args) : special(i) \/ bad(i)}
        first      == CHOOSE i \in stop : \A j \in stop : i <= j
    IN  IF stop = {}
        THEN [kind |-> "ids", ids |-> UNION {ParseRangeToken(args[i]).ids : i \in 1..Len(args)}]
        ELSE IF bad(first) THEN [kind |-> "ValueError", ids |-> {}]
        ELSE IF IsWord(args[first], <<"a", "l", "l">>) THEN [kind |-> "ALL", ids |-> {}]
        ELSE [kind |-> "NONE", ids |-> {}]

(***************************************************************************)
(* Spectrum interface (plugins/specInterface.py)                           *)
(***************************************************************************)
NoRet ==
    [op |-> "none", exc |-> "none", value |-> "None", msg |-> "none",
     loaded |-> <<>>, warnings |-> <<>>, ids |-> <<>>, args |-> <<>>]

Ret(op, exc, value, msg) ==
    [op |-> op, exc |-> exc, value |-> value, msg |-> msg,
     loaded |-> <<>>, warnings |-> <<>>, ids |-> <<>>, args |-> <<>>]

\* f.rsplit("'", 1) and the choice of (fname, fmt)
SplitFormat(f) ==
    LET i == LastIndexOf(f, "'")
    IN  IF i = 0 THEN [fname |-> f, fmt |-> None]
        ELSE IF i = Len(f) THEN [fname |-> SubSeq(f, 1, i - 1), fmt |-> None]
        ELSE [fname |-> SubSeq(f, 1, i - 1), fmt |-> Some(SubSeq(f, i + 1, Len(f)))]

\* the files one entry of the batch resolves to, each with the entry's format
EntryFiles(f) ==
    LET e     == SplitFormat(f)
        names == Glob(ExpandUser(e.fname))
    IN  [i \in 1..Len(names) |-> [fname |-> names[i], fmt |-> e.fmt]]

RECURSIVE BatchFiles(_)
\* the files LoadSpectra attempts to read, in order
BatchFiles(files) ==
    IF files = <<>> THEN <<>>
    ELSE EntryFiles(Head(files)) \o BatchFiles(Tail(files))

\* one turn of the inner loop with the free id taken once, before the loops
LoadOne_StaleID(st, att) ==
    LET r == FileSpectrum(att.fname, att.fmt)
    IN  IF r.exc # "none"
        THEN [st EXCEPT !.warnings = Append(@, att)]
        ELSE LET ID   == GetFreeID(st.first)
                 spec == SetColor(r.spec, ColorForID(ID, 1, 1))
                 c1   == Insert(st.spectra, ID, spec)
             IN  [st EXCEPT !.spectra = ActivateObject(c1, Some(ID)).c,
                            !.loaded = Append(@, ID)]

\* one turn of the inner loop with the store and append outside the else
LoadOne_AppendOnFail(st, att) ==
    LET r    == FileSpectrum(att.fname, att.fmt)
        ID   == GetFreeID(st.spectra)
        spec == SetColor(r.spec, ColorForID(ID, 1, 1))
        c1   == Insert(st.spectra, ID, spec)
    IN  [st EXCEPT !.warnings = IF r.exc # "none" THEN Append(@, att) ELSE @,
                   !.spectra = ActivateObject(c1, Some(ID)).c,
                   !.loaded = Append(@, ID)]

\* one turn of the inner loop: construct, or warn; store under the free id
LoadOne(st, att) ==
    LET r == FileSpectrum(att.fname, att.fmt)
    IN  IF r.exc # "none"
        THEN [st EXCEPT !.warnings = Append(@, att)]
        ELSE LET ID   == GetFreeID(st.spectra)
                 spec == SetColor(r.spec, ColorForID(ID, 1, 1))
                 c1   == Insert(st.spectra, ID, spec)
             IN  [st EXCEPT !.spectra = ActivateObject(c1, Some(ID)).c,
                            !.loaded = Append(@, ID),
                            !.bare = IF st.viewport.locks > 0 THEN @ ELSE @ + 1]

RECURSIVE LoadAll(_, _)
LoadAll(st, atts) ==
    IF atts = <<>> THEN st
    ELSE LoadAll(LoadOne(st, Head(atts)), Tail(atts))

\* the state LoadSpectra starts its loops in: the updates of the viewport are
\* locked; locks and unlocks count the calls of LockUpdate and UnlockUpdate,
\* bare the spectra that were stored while the updates were not locked
Locked(c, vp) ==
    [spectra |-> c, first |-> c, loaded |-> <<>>, warnings |-> <<>>,
     viewport |-> LockUpdate(vp), locks |-> 1, unlocks |-> 0, bare |-> 0]

\* LoadSpectra unlocking the updates only when a spectrum was loaded
LoadResult_UnlockIfLoaded(c, vp, files) ==
    LET st == LoadAll(Locked(c, vp), BatchFiles(files))
    IN  IF st.loaded = <<>> THEN st
        ELSE [st EXCEPT !.viewport = UnlockUpdate(@), !.unlocks = @ + 1]

\* the body of LoadSpectra over a list of entries: LockUpdate, the loops,
\* UnlockUpdate
LoadResult(c, vp, files) ==
    LET st == LoadAll(Locked(c, vp), BatchFiles(files))
    IN  [st EXCEPT !.viewport = UnlockUpdate(@), !.unlocks = @ + 1]

\* LoadSpectra(files): files is one string or a list of strings
LoadSpectra(files) ==
    \E r \in {LoadResult(spectra, viewport, IF files.str THEN <<files.v>> ELSE files.v)} :
        /\ Cardinality(Keys(r.spectra)) <= MaxSpectra
        /\ spectra' = r.spectra
        /\ viewport' = r.viewport
        /\ ret' = [Ret("LoadSpectra", "none", "list", "none")
                      EXCEPT !.loaded = r.loaded, !.warnings = r.warnings,
                             !.args = [locks |-> r.locks, unlocks |-> r.unlocks,
                                       bare |-> r.bare]]
        /\ cmd' = NoCmd
        /\ UNCHANGED <<variables, showDecomp, heap, workFit, cwd>>

\* spectrum get <files>
SpectrumGet(args) ==
    \E r \in {LoadResult(spectra, viewport, args)} :
        /\ Cardinality(Keys(r.spectra)) <= MaxSpectra
        /\ spectra' = r.spectra
        /\ viewport' = r.viewport
        /\ ret' = [Ret("SpectrumGet", "none", "None",
                       CASE Len(r.loaded) = 0 -> "Warning: no spectra loaded."
                         [] Len(r.loaded) = 1 -> "Loaded 1 spectrum"
                         [] OTHER             -> "Loaded %d spectra")
                      EXCEPT !.loaded = r.loaded, !.warnings = r.warnings,
                             !.args = [locks |-> r.locks, unlocks |-> r.unlocks,
                                       bare |-> r.bare]]
        /\ cmd' = NoCmd
        /\ UNCHANGED <<variables, showDecomp, heap, workFit, cwd>>

\* cd going to the home directory when it has no argument
Cd_HomeWithoutArgument(args) ==
    \E r \in {Chdir(cwd, ExpandUser(IF Len(args) = 0 THEN <<"~">> ELSE args[1]))} :
        /\ cwd' = IF r.ok THEN r.dir ELSE cwd
        /\ ret' = [Ret("Cd", "none", "None", IF r.ok THEN "none" ELSE "OSError")
                      EXCEPT !.args = args]
        /\ cmd' = NoCmd
        /\ UNCHANGED <<variables, showDecomp, spectra, heap, workFit, viewport>>

\* cd [dir]
Cd(args) ==
    /\ IF Len(args) = 0
       THEN /\ cwd' = cwd
            /\ ret' = [Ret("Cd", "none", "None", "cwd") EXCEPT !.args = args]
       ELSE \E r \in {Chdir(cwd, ExpandUser(args[1]))} :
              /\ cwd' = IF r.ok THEN r.dir ELSE cwd
              /\ ret' = [Ret("Cd", "none", "None", IF r.ok THEN "none" ELSE "OSError")
                            EXCEPT !.args = args]
    /\ cmd' = NoCmd
    /\ UNCHANGED <<variables, showDecomp, spectra, heap, workFit, viewport>>

\* the Fit objects that go away with the spectra ids
FitRefsOf(c, ids) ==
    UNION {{c.objects[i].fits.objects[k] : k \in Keys(c.objects[i].fits)} :
              i \in ids \cap Keys(c)}

\* hotkey n: show the spectra whose ids are typed
HotkeyShow(arg) ==
    LET words == SplitBlank(arg)
        ok    == \A i \in 1..Len(words) : ParseInt(words[i]).ok
        ids   == {ParseInt(words[i]).v : i \in 1..Len(words)}
    IN  /\ spectra' = IF ok THEN ShowObjects(spectra, ids) ELSE spectra
        /\ ret' = Ret("HotkeyShow", "none", "None",
                      IF ok THEN "none" ELSE "Invalid spectrum identifier")
        /\ cmd' = NoCmd
        /\ UNCHANGED <<variables, showDecomp, heap, workFit, viewport, cwd>>

\* HotkeyActivate assigning activeID itself instead of calling ActivateObject
HotkeyActivate_Assign(arg) ==
    LET ID == ParseInt(arg)
    IN  /\ spectra' = IF ID.ok THEN [spectra EXCEPT !.activeID = Some(ID.v)] ELSE spectra
        /\ ret' = Ret("HotkeyActivate", "none", "None",
                      IF ~ID.ok THEN "Invalid id" ELSE "none")
        /\ cmd' = NoCmd
        /\ UNCHANGED <<variables, showDecomp, heap, workFit, viewport, cwd>>

\* hotkey a: activate the spectrum whose id is typed
HotkeyActivate(arg) ==
    LET ID == ParseInt(arg)
        r  == ActivateObject(spectra, Some(ID.v))
    IN  /\ spectra' = IF ID.ok THEN r.c ELSE spectra
        /\ ret' = Ret("HotkeyActivate", "none", "None",
                      CASE ~ID.ok             -> "Invalid id"
                        [] r.exc = "KeyError" -> "No such id"
                        [] OTHER              -> "none")
        /\ cmd' = NoCmd
        /\ UNCHANGED <<variables, showDecomp, heap, workFit, viewport, cwd>>

\* spectrum delete <ids>
SpectrumDelete(args) ==
    LET r   == ParseRange(args)
        ids == IF r.kind = "ALL" THEN Keys(spectra) ELSE r.ids
    IN  /\ spectra' = IF r.kind \in {"ALL", "ids"} THEN RemoveObjects(spectra, ids)
                      ELSE spectra
        /\ heap' = IF r.kind \in {"ALL", "ids"}
                   THEN Without(heap, FitRefsOf(spectra, ids))
                   ELSE heap
        /\ ret' = IF r.kind = "ValueError"
                  THEN Ret("SpectrumDelete", "none", "False", "Usage: spectrum delete <ids>")
                  ELSE Ret("SpectrumDelete", "none", "None", "none")
        /\ cmd' = NoCmd
        /\ UNCHANGED <<variables, showDecomp, workFit, viewport, cwd>>

\* spectrum activate <id>
SpectrumActivate(args) ==
    LET ID == ParseInt(args[1])
        r  == ActivateObject(spectra, Some(ID.v))
    IN  /\ spectra' = IF ID.ok THEN r.c ELSE spectra
        /\ ret' = CASE ~ID.ok ->
                         Ret("SpectrumActivate", "none", "False", "Usage: spectrum activate <id>")
                    [] ID.ok /\ r.exc = "KeyError" ->
                         Ret("SpectrumActivate", "KeyError", "None", "none")
                    [] OTHER ->
                         Ret("SpectrumActivate", "none", "None", "none")
        /\ cmd' = NoCmd
        /\ UNCHANGED <<variables, showDecomp, heap, workFit, viewport, cwd>>

\* spectrum show <ids>|all|none
SpectrumShow(args) ==
    LET r == ParseRange(args)
    IN  /\ spectra' = CASE r.kind = "NONE" -> HideAll(spectra)
                        [] r.kind = "ALL"  -> ShowAll(spectra)
                        [] r.kind = "ids"  -> ShowObjects(spectra, r.ids)
                        [] OTHER           -> spectra
        /\ ret' = IF r.kind = "ValueError"
                  THEN Ret("SpectrumShow", "none", "False", "Usage: spectrum show <ids>|all|none")
                  ELSE Ret("SpectrumShow", "none", "None", "none")
        /\ cmd' = NoCmd
        /\ UNCHANGED <<variables, showDecomp, heap, workFit, viewport, cwd>>

\* isinstance(obj, hdtv.spectrum.Spectrum): only a Spectrum has a histogram
IsSpectrum(obj) == "fHist" \in DOMAIN obj

\* the objects of that name, whether they hold a histogram or not
NamedSpectra_NoHistogramTest(c, name) ==
    {k \in Keys(c) : c.objects[k].name = name}

\* the objects FindSpectrumByName(name) may return: the spectra whose
\* histogram has the name; the first one met in the container's order,
\* which is undefined
NamedSpectra(c, name) ==
    {k \in Keys(c) : /\ IsSpectrum(c.objects[k])
                     /\ c.objects[k].fHist # None
                     /\ c.objects[k].fHist[1] = name}

\* FindSpectrumByName(name) through the API: one of them, or None
FindSpectrumByName(name) ==
    /\ \E found \in (IF NamedSpectra(spectra, name) = {} THEN {None}
                      ELSE {Some(k) : k \in NamedSpectra(spectra, name)}) :
           ret' = [Ret("FindSpectrumByName", "none", "None", "none")
                      EXCEPT !.ids = found, !.args = [name |-> name]]
    /\ cmd' = NoCmd
    /\ UNCHANGED <<variables, showDecomp, spectra, heap, workFit, viewport, cwd>>

\* spec.SetCal(coeff)
SetCal(spec, coeff) == [spec EXCEPT !.cal = coeff]

\* hdtv.cal.CalFromFile(fname): the calibration a file holds
CalFromFile(fname) == <<FloatV(FALSE, 0, 0), FloatV(FALSE, 5, 1)>>

\* hdtv.cal.CalFromPairs(pairs): the calibration two pairs of channel and
\* energy determine, held as the four numbers
CalFromPairs(pairs) == pairs[1] \o pairs[2]

\* the index a slice bound stands for in a list of n elements
SliceIndex(i, n) == IF i < 0 THEN (IF n + i < 0 THEN 0 ELSE n + i) ELSE (IF i > n THEN n ELSE i)

\* Python's s[a:b] (indices from 0)
Slice(s, a, b) ==
    LET lo == SliceIndex(a, Len(s))
        hi == SliceIndex(b, Len(s))
    IN  IF hi <= lo THEN <<>> ELSE SubSeq(s, lo + 1, hi)

\* Python's s[a:]
SliceFrom(s, a) == Slice(s, a, Len(s))

RECURSIVE CalLoop_StopAtMissing(_, _, _)
\* the loop over the ids ending at the first id that is no key
CalLoop_StopAtMissing(st, ids, cal) ==
    IF ids = <<>> THEN st
    ELSE IF Head(ids) \notin Keys(st.spectra)
    THEN [st EXCEPT !.warnings = Append(@, Head(ids))]
    ELSE CalLoop_StopAtMissing(
             [st EXCEPT !.spectra.objects[Head(ids)] = SetCal(@, cal),
                        !.done = Append(@, Head(ids))],
             Tail(ids), cal)

RECURSIVE CalLoop(_, _, _)
\* for ID in ids: SetCal on the spectrum, or the warning that there is none
CalLoop(st, ids, cal) ==
    IF ids = <<>> THEN st
    ELSE IF Head(ids) \notin Keys(st.spectra)
    THEN CalLoop([st EXCEPT !.warnings = Append(@, Head(ids))], Tail(ids), cal)
    ELSE CalLoop([st EXCEPT !.spectra.objects[Head(ids)] = SetCal(@, cal),
                            !.done = Append(@, Head(ids))],
                 Tail(ids), cal)

\* What the three calibration commands do once their leading arguments are
\* read: the ids are the active spectrum or those of the id arguments, and the
\* calibration is set on each of them.
Calibrate(op, usage, args, idargs, cal) ==
    LET r0  == [Ret(op, "none", "True", "none")
                   EXCEPT !.args = [args |-> args, idargs |-> idargs, cal |-> cal,
                                    ok |-> TRUE]]
        r   == ParseRange(idargs)
        ids == CASE idargs = <<>> -> {spectra.activeID[1]}
                 [] r.kind = "ALL" -> Keys(spectra)
                 [] OTHER          -> r.ids
    IN  IF (idargs = <<>> /\ spectra.activeID = None)
              \/ (idargs # <<>> /\ r.kind = "ValueError")
        THEN /\ spectra' = spectra
             /\ ret' = [r0 EXCEPT !.value = "False", !.msg = usage]
        ELSE IF idargs # <<>> /\ r.kind = "NONE"
        THEN /\ spectra' = spectra
             /\ ret' = [r0 EXCEPT !.value = "None"]
        ELSE \E st \in {CalLoop([spectra |-> spectra, warnings |-> <<>>, done |-> <<>>],
                                SortedSeq(ids), cal)} :
               /\ spectra' = st.spectra
               /\ ret' = [r0 EXCEPT !.warnings = st.warnings, !.ids = st.done]

\* a calibration command that ends before a calibration is made
CalUsage(op, exc, usage, args) ==
    /\ spectra' = spectra
    /\ ret' = [Ret(op, exc, IF exc = "none" THEN "False" ELSE "None",
                   IF exc = "none" THEN usage ELSE "none")
                  EXCEPT !.args = [args |-> args, idargs |-> <<>>, cal |-> <<>>,
                                   ok |-> FALSE]]

\* calibration position read <filename> [ids]
CalPosRead(args) ==
    /\ IF Len(args) = 0
       THEN CalUsage("CalPosRead", "IndexError", "none", args)
       ELSE Calibrate("CalPosRead", "Usage: calibration position read <filename> [ids]",
                      args, SliceFrom(args, 1), CalFromFile(args[1]))
    /\ cmd' = NoCmd
    /\ UNCHANGED <<variables, showDecomp, heap, workFit, viewport, cwd>>

\* calibration position enter <ch0> <E0> <ch1> <E1> [ids]
CalPosEnter(args) ==
    /\ IF Len(args) < 4 \/ \E i \in 1..4 : ~ParseFloat(args[i]).ok
       THEN CalUsage("CalPosEnter", "none",
                     "Usage: calibration position enter <ch0> <E0> <ch1> <E1> [ids]", args)
       ELSE Calibrate("CalPosEnter",
                      "Usage: calibration position enter <ch0> <E0> <ch1> <E1> [ids]",
                      args, SliceFrom(args, 4),
                      CalFromPairs(<< <<ParseFloat(args[1]).val, ParseFloat(args[2]).val>>,
                                      <<ParseFloat(args[3]).val, ParseFloat(args[4]).val>> >>))
    /\ cmd' = NoCmd
    /\ UNCHANGED <<variables, showDecomp, heap, workFit, viewport, cwd>>

\* calibration position set <deg> <p0> <p1> <p2> ... [ids]
CalPosSet(args) ==
    /\ IF Len(args) = 0 \/ ~ParseInt(args[1]).ok
       THEN CalUsage("CalPosSet", "none",
                     "Usage: calibration position set <deg> <p0> <p1> <p2> ... [ids]", args)
       ELSE \E coeffs \in {Slice(args, 1, ParseInt(args[1]).v + 2)} :
              IF \E i \in 1..Len(coeffs) : ~ParseFloat(coeffs[i]).ok
              THEN CalUsage("CalPosSet", "none",
                            "Usage: calibration position set <deg> <p0> <p1> <p2> ... [ids]",
                            args)
              ELSE Calibrate("CalPosSet",
                             "Usage: calibration position set <deg> <p0> <p1> <p2> ... [ids]",
                             args, SliceFrom(args, ParseInt(args[1]).v + 2),
                             [i \in 1..Len(coeffs) |-> ParseFloat(coeffs[i]).val])
    /\ cmd' = NoCmd
    /\ UNCHANGED <<variables, showDecomp, heap, workFit, viewport, cwd>>

\* [float(s) for s in v.split()]: the coefficients, or ValueError
ParseCoeff(v) ==
    LET words == SplitBlank(v)
    IN  IF \A i \in 1..Len(words) : ParseFloat(words[i]).ok
        THEN [ok |-> TRUE, coeff |-> [i \in 1..Len(words) |-> ParseFloat(words[i]).val]]
        ELSE [ok |-> FALSE, coeff |-> <<>>]

\* one line of a calibration list, as the loop of ReadCalibrationList reads
\* it: the states that may follow st, one for each spectrum that
\* FindSpectrumByName may return
ReadCalLine(st, line, linenum, fname, warn_notfound) ==
    LET l     == Strip(SplitOn(line, "#")[1])
        colon == IndexOf(l, ":")
        name  == Strip(SubSeq(l, 1, colon - 1))
        c     == ParseCoeff(SubSeq(l, colon + 1, Len(l)))
        parse == [kind |-> "parse", line |-> linenum, fname |-> fname]
    IN  IF l = <<>> THEN {st}
        ELSE IF colon = 0 \/ ~c.ok
        THEN {[st EXCEPT !.warnings = Append(@, parse)]}
        ELSE IF NamedSpectra(st.spectra, name) # {}
        THEN {[st EXCEPT !.spectra.objects[k] = SetCal(@, c.coeff)] :
                 k \in NamedSpectra(st.spectra, name)}
        ELSE IF warn_notfound
        THEN {[st EXCEPT !.warnings = Append(@, [kind |-> "notfound", name |-> name])]}
        ELSE {st}

RECURSIVE ReadCalLines_StopAtError(_, _, _, _, _)
\* the loop with the try around it, not inside it: a malformed line is
\* warned about and ends the loop
ReadCalLines_StopAtError(sts, lines, linenum, fname, warn_notfound) ==
    IF linenum > Len(lines) THEN sts
    ELSE LET next == UNION {ReadCalLine(st, lines[linenum], linenum, fname, warn_notfound) :
                               st \in sts}
         IN  IF \E st \in next : /\ st.warnings # <<>>
                                  /\ st.warnings[Len(st.warnings)].kind = "parse"
                                  /\ st.warnings[Len(st.warnings)].line = linenum
             THEN next
             ELSE ReadCalLines_StopAtError(next, lines, linenum + 1, fname, warn_notfound)

RECURSIVE ReadCalLines(_, _, _, _, _)
\* the loop over the lines of the file, from line linenum on
ReadCalLines(sts, lines, linenum, fname, warn_notfound) ==
    IF linenum > Len(lines) THEN sts
    ELSE ReadCalLines(UNION {ReadCalLine(st, lines[linenum], linenum, fname, warn_notfound) :
                                st \in sts},
                      lines, linenum + 1, fname, warn_notfound)

\* ReadCalibrationList(fname, warn_notfound); content is what the file of
\* that name holds, None for a file that cannot be opened
ReadCalibrationList(fname, content, warn_notfound) ==
    LET r0 == [Ret("ReadCalibrationList", "none", "True", "none")
                  EXCEPT !.args = [fname |-> fname, content |-> content,
                                   warn_notfound |-> warn_notfound]]
    IN  /\ IF content = None
           THEN /\ ret' = [r0 EXCEPT !.value = "False", !.msg = "Error opening file"]
                /\ UNCHANGED spectra
           ELSE \E st \in ReadCalLines({[spectra |-> spectra, warnings |-> <<>>]},
                                       content[1], 1, ExpandUser(fname), warn_notfound) :
                    /\ spectra' = st.spectra
                    /\ ret' = [r0 EXCEPT !.warnings = st.warnings]
        /\ cmd' = NoCmd
        /\ UNCHANGED <<variables, showDecomp, heap, workFit, viewport, cwd>>

(***************************************************************************)
(* Float arithmetic on exact decimals                                      *)
(***************************************************************************)
\* the integer v * 10^e, for e at least the exponent of v
Scaled(v, e) == (IF v.neg THEN 0 - 1 ELSE 1) * v.m * Pow10(e - v.e)

FromScaled(x, e) == FloatV(x < 0, IF x < 0 THEN 0 - x ELSE x, e)

MaxOf(a, b) == IF a >= b THEN a ELSE b

FloatAdd(a, b) ==
    LET e == MaxOf(a.e, b.e) IN FromScaled(Scaled(a, e) + Scaled(b, e), e)

FloatSub(a, b) ==
    LET e == MaxOf(a.e, b.e) IN FromScaled(Scaled(a, e) - Scaled(b, e), e)

\* a / 2.
FloatHalf(a) == FromScaled(Scaled(a, a.e) * 5, a.e + 1)

\* |a - b| as an integer at exponent e
Distance(a, b, e) ==
    LET d == Scaled(a, e) - Scaled(b, e) IN IF d < 0 THEN 0 - d ELSE d

(***************************************************************************)
(* Identifier resolver (hdtv.util.ID.ParseIds)                             *)
(***************************************************************************)
MkID(major, minor) == [major |-> major, minor |-> minor]

Majors(ids) == [i \in 1..Len(ids) |-> ids[i].major]

RECURSIVE Flatten(_)
Flatten(ss) == IF ss = <<>> THEN <<>> ELSE Head(ss) \o Flatten(Tail(ss))

\* one token: a keyword, an id, major.minor, or an inclusive range a-b
ParseIdToken(tok, c) ==
    LET r   == SplitOn(tok, "-")
        d   == SplitOn(tok, ".")
        all == SortedSeq(Keys(c))
    IN  CASE IsWord(tok, <<"a", "l", "l">>) ->
               [ok |-> TRUE, ids |-> [i \in 1..Len(all) |-> MkID(all[i], None)]]
          [] IsWord(tok, <<"n", "o", "n", "e">>) ->
               [ok |-> TRUE, ids |-> <<>>]
          [] IsWord(tok, <<"a", "c", "t", "i", "v", "e">>) ->
               [ok |-> TRUE,
                ids |-> IF c.activeID = None THEN <<>>
                        ELSE <<MkID(c.activeID[1], None)>>]
          [] Len(r) = 2 /\ ParseInt(r[1]).ok /\ ParseInt(r[2]).ok ->
               LET a == ParseInt(r[1]).v
                   b == ParseInt(r[2]).v
               IN  [ok |-> TRUE,
                    ids |-> [i \in 1..(IF b >= a THEN b - a + 1 ELSE 0) |->
                                MkID(a + i - 1, None)]]
          [] Len(d) = 2 /\ ParseInt(d[1]).ok /\ ParseInt(d[2]).ok ->
               [ok |-> TRUE, ids |-> <<MkID(ParseInt(d[1]).v, Some(ParseInt(d[2]).v))>>]
          [] ParseInt(tok).ok ->
               [ok |-> TRUE, ids |-> <<MkID(ParseInt(tok).v, None)>>]
          [] OTHER ->
               [ok |-> FALSE, ids |-> <<>>]

RECURSIVE KeepExisting(_, _)
KeepExisting(ids, K) ==
    IF ids = <<>> THEN <<>>
    ELSE (IF Head(ids).minor = None /\ Head(ids).major \in K THEN <<Head(ids)>> ELSE <<>>)
             \o KeepExisting(Tail(ids), K)

\* ParseIds(text, container, only_existent): the ids of the tokens in order;
\* ValueError for a malformed token
ParseIds(text, c, only_existent) ==
    LET toks == SplitBlank([i \in 1..Len(text) |-> IF text[i] = "," THEN " " ELSE text[i]])
        res  == [i \in 1..Len(toks) |-> ParseIdToken(toks[i], c)]
        ids  == Flatten([i \in 1..Len(toks) |-> res[i].ids])
    IN  IF \E i \in 1..Len(toks) : ~res[i].ok
        THEN [exc |-> "ValueError", ids |-> <<>>]
        ELSE [exc |-> "none",
              ids |-> IF only_existent THEN KeepExisting(ids, Keys(c)) ELSE ids]

(***************************************************************************)
(* Fits and the session's work fit (hdtv.fit, hdtv.session)                *)
(***************************************************************************)
\* the parameters of the peak model and their status at construction
StatusFree == <<"f", "r", "e", "e">>

StatusHold == <<"h", "o", "l", "d">>

StatusEqual == <<"e", "q", "u", "a", "l">>

StatusNone == <<"n", "o", "n", "e">>

\* a status is kept as the list of the comma separated words given for it
DefaultStatus ==
    [pos |-> <<StatusFree>>, vol |-> <<StatusFree>>, width |-> <<StatusEqual>>,
     tl |-> <<StatusNone>>, tr |-> <<StatusNone>>, sh |-> <<StatusNone>>,
     sw |-> <<StatusHold>>]

ValidStatus == {StatusFree, StatusHold, StatusEqual, StatusNone}

\* a Fit without markers and results, with a fitter at its defaults
NewFit(decomp) ==
    [bg |-> <<>>, region |-> <<>>, peak |-> <<>>,
     bgdeg |-> 0, peakModel |-> "theuerkauf", status |-> DefaultStatus,
     fitted |-> "none", peaks |-> <<>>, decomp |-> decomp]

Markers(fit, mtype) ==
    CASE mtype = "bg" -> fit.bg [] mtype = "region" -> fit.region [] OTHER -> fit.peak

WithMarkers(fit, mtype, ms) ==
    CASE mtype = "bg"     -> [fit EXCEPT !.bg = ms]
      [] mtype = "region" -> [fit EXCEPT !.region = ms]
      [] OTHER            -> [fit EXCEPT !.peak = ms]

NoMarkers(fit) == fit.bg = <<>> /\ fit.region = <<>> /\ fit.peak = <<>>

\* index of the marker nearest to pos (the first of equally near ones)
Nearest(ms, pos) ==
    LET e    == CHOOSE x \in {ms[i].e : i \in 1..Len(ms)} \cup {pos.e} :
                   \A y \in {ms[i].e : i \in 1..Len(ms)} \cup {pos.e} : x >= y
        d(i) == Distance(ms[i], pos, e)
    IN  CHOOSE i \in 1..Len(ms) :
            /\ \A j \in 1..Len(ms) : d(i) <= d(j)
            /\ \A j \in 1..(i - 1) : d(j) > d(i)

RemoveAt(ms, i) == SubSeq(ms, 1, i - 1) \o SubSeq(ms, i + 1, Len(ms))

\* the session as one value: Spectra container, Fit objects, work fit
Session == [spectra |-> spectra, heap |-> heap, workFit |-> workFit]

WorkFit(S) == S.heap[S.workFit]

\* session.SetMarker(mtype, pos): one more marker of that type on the work fit
SetMarker(S, mtype, pos) ==
    [S EXCEPT !.heap[S.workFit] = WithMarkers(@, mtype, Append(Markers(@, mtype), pos))]

\* session.RemoveMarker(mtype, pos): the marker of that type nearest to pos goes
RemoveMarker(S, mtype, pos) ==
    LET ms == Markers(WorkFit(S), mtype)
    IN  IF ms = <<>> THEN S
        ELSE [S EXCEPT !.heap[S.workFit] =
                 WithMarkers(@, mtype, RemoveAt(ms, Nearest(ms, pos)))]

\* fit.FitPeakFunc / fit.FitBgFunc: the result of fitting to a spectrum
Fitted(fit, peaks) ==
    IF peaks THEN [fit EXCEPT !.fitted = "peaks", !.peaks = fit.peak]
    ELSE [fit EXCEPT !.fitted = IF @ = "peaks" THEN @ ELSE "bg"]

\* session.ExecuteFit(peaks): fit the background or the peaks of the work fit
\* to the active spectrum; without an active spectrum nothing happens
ExecuteFit(S, peaks) ==
    IF S.spectra.activeID = None THEN S
    ELSE [S EXCEPT !.heap[S.workFit] = Fitted(@, peaks)]

\* the fit without its background markers and fit, and unless bg_only
\* without any other marker and result too
Cleared(fit, bg_only) ==
    IF bg_only
    THEN [fit EXCEPT !.bg = <<>>, !.fitted = IF @ = "bg" THEN "none" ELSE @]
    ELSE [fit EXCEPT !.bg = <<>>, !.region = <<>>, !.peak = <<>>,
                     !.fitted = "none", !.peaks = <<>>]

\* session.ClearFit(bg_only)
ClearFit(S, bg_only) == [S EXCEPT !.heap[S.workFit] = Cleared(@, bg_only)]

\* the smallest reference that is not in use
NewRef(h) == CHOOSE r \in 0..Cardinality(DOMAIN h) :
                 r \notin DOMAIN h /\ \A q \in 0..(r - 1) : q \in DOMAIN h

\* the ids StoreFit stores under: the next free id of the container, or
\* those the text ID names
StoreIds(fits, ID) ==
    IF ID = None THEN [exc |-> "none", ids |-> <<MkID(GetFreeID(fits), None)>>]
    ELSE ParseIds(ID[1], fits, FALSE)

\* the Fit objects that are in the container under one of the ids
RefsAt(fits, ids) == {fits.objects[k] : k \in ids \cap Keys(fits)}

\* the work fit object itself put under id k of the active spectrum
AliasUnder(S, k) ==
    [S EXCEPT !.spectra.objects[S.spectra.activeID[1]].fits = Insert(@, k, S.workFit)]

\* the Fit objects without the one that is under id k of the active spectrum
Released(S, k) ==
    Without(S.heap, RefsAt(S.spectra.objects[S.spectra.activeID[1]].fits, {k}))

\* a copy of the work fit put under id k of the active spectrum, in the
\* place of the fit that was there
CopyUnder(S, k) ==
    [S EXCEPT !.heap = Put(Released(S, k), NewRef(Released(S, k)), WorkFit(S)),
              !.spectra.objects[S.spectra.activeID[1]].fits =
                  Insert(@, k, NewRef(Released(S, k)))]

\* StoreFit keeping the work fit object itself in the container
StoreFit_Alias(S, ID) ==
    IF S.spectra.activeID = None \/ WorkFit(S).fitted = "none"
    THEN [exc |-> "none", msg |-> "No fit available to store", S |-> S]
    ELSE CHOOSE res \in
           { IF ids.exc # "none" THEN [exc |-> ids.exc, msg |-> "none", S |-> S]
             ELSE IF ids.ids = <<>> THEN [exc |-> "IndexError", msg |-> "none", S |-> S]
             ELSE [exc |-> "none", msg |-> "Storing workFit",
                   S   |-> AliasUnder(S, ids.ids[1].major)] :
             ids \in {StoreIds(S.spectra.objects[S.spectra.activeID[1]].fits, ID)} } : TRUE

\* session.StoreFit(ID): a copy of the fitted work fit goes into the fit
\* container of the active spectrum, under ID or the next free id, and the
\* markers of the work fit are cleared
StoreFit(S, ID) ==
    IF S.spectra.activeID = None \/ WorkFit(S).fitted = "none"
    THEN [exc |-> "none", msg |-> "No fit available to store", S |-> S]
    ELSE CHOOSE res \in
           { IF ids.exc # "none" THEN [exc |-> ids.exc, msg |-> "none", S |-> S]
             ELSE IF ids.ids = <<>> THEN [exc |-> "IndexError", msg |-> "none", S |-> S]
             ELSE [exc |-> "none", msg |-> "Storing workFit",
                   S   |-> ClearFit(CopyUnder(S, ids.ids[1].major), FALSE)] :
             ids \in {StoreIds(S.spectra.objects[S.spectra.activeID[1]].fits, ID)} } : TRUE

\* fitter.SetParameter(parname, status): the background degree, or the
\* status of a parameter of the peak model; ValueError for anything else
SetParameter(fit, parname, status) ==
    IF parname = "background"
    THEN IF Len(status) = 1 /\ ParseInt(status[1]).ok
         THEN [exc |-> "none", fit |-> [fit EXCEPT !.bgdeg = ParseInt(status[1]).v]]
         ELSE [exc |-> "ValueError", fit |-> fit]
    ELSE IF parname \in DOMAIN fit.status
              /\ \A i \in 1..Len(status) :
                    status[i] \in ValidStatus \/ ParseFloat(status[i]).ok
    THEN [exc |-> "none", fit |-> [fit EXCEPT !.status[parname] = status]]
    ELSE [exc |-> "ValueError", fit |-> fit]

(***************************************************************************)
(* Fit interface (hdtv/plugins/fitInterface.py)                            *)
(***************************************************************************)
\* fit.SetDecomp(enable) on each of the Fit objects refs
SetDecomp(h, refs, enable) ==
    [r \in DOMAIN h |-> IF r \in refs THEN [h[r] EXCEPT !.decomp = enable] ELSE h[r]]

\* ShowDecomposition(enable, sid, ids): the work fit when ids is None, else
\* the fits ids of spectrum sid (of the active spectrum when sid is None)
ShowDecomposition(S, enable, sid, ids) ==
    LET spec == IF sid = None THEN GetActiveObject(S.spectra)
                ELSE Some(S.spectra.objects[sid[1]])
    IN  IF ids = None
        THEN [exc |-> "none", S |-> [S EXCEPT !.heap = SetDecomp(@, {S.workFit}, enable)]]
        ELSE IF spec = None THEN [exc |-> "AttributeError", S |-> S]
        ELSE IF \E k \in ids[1] : k \notin Keys(spec[1].fits)
        THEN [exc |-> "KeyError", S |-> S]
        ELSE [exc |-> "none",
              S   |-> [S EXCEPT !.heap =
                         SetDecomp(@, {spec[1].fits.objects[k] : k \in ids[1]}, enable)]]

\* SetDecomposition that reaches the fits of the active spectrum only
SetDecomposition_ActiveOnly(S, default_enable) ==
    [S EXCEPT !.heap = SetDecomp(@, {S.workFit}
                                    \cup FitRefsOf(S.spectra, Range(S.spectra.activeID)),
                                 default_enable)]

\* SetDecomposition(default_enable): the work fit and every stored fit of
\* every spectrum (the class default is the variable showDecomp)
SetDecomposition(S, default_enable) ==
    [S EXCEPT !.heap = SetDecomp(@, {S.workFit} \cup FitRefsOf(S.spectra, Keys(S.spectra)),
                                 default_enable)]

\* what a method of the fit interface leaves behind: the session and ret
FitStep(S, r) ==
    /\ spectra' = S.spectra
    /\ heap' = S.heap
    /\ workFit' = S.workFit
    /\ ret' = r
    /\ cmd' = NoCmd
    /\ UNCHANGED <<variables, showDecomp, viewport, cwd>>

NumMarkers(fit) == Len(fit.bg) + Len(fit.region) + Len(fit.peak)

\* hotkeys b, r, p: a marker of the type at the cursor
HotkeySetMarker(mtype, cursor) ==
    /\ NumMarkers(WorkFit(Session)) < MaxMarkers
    /\ FitStep(SetMarker(Session, mtype, cursor), Ret("SetMarker", "none", "None", mtype))

\* hotkeys -b, -r, -p: the marker of the type nearest to the cursor goes
HotkeyRemoveMarker(mtype, cursor) ==
    FitStep(RemoveMarker(Session, mtype, cursor), Ret("RemoveMarker", "none", "None", mtype))

\* hotkeys B and F: fit the background, fit the peaks
HotkeyExecuteFit(peaks) ==
    FitStep(ExecuteFit(Session, peaks),
            Ret("ExecuteFit", "none", "None", IF peaks THEN "peaks" ELSE "bg"))

\* hotkeys -B and -F
HotkeyClearFit(bg_only) ==
    FitStep(ClearFit(Session, bg_only),
            Ret("ClearFit", "none", "None", IF bg_only THEN "bg_only" ELSE "all"))

\* no fit container holds more than MaxFits fits
FitsBounded(S) ==
    \A i \in Keys(S.spectra) : Cardinality(Keys(S.spectra.objects[i].fits)) <= MaxFits

\* hotkey +F
HotkeyStoreFit ==
    \E r \in {StoreFit(Session, None)} :
        /\ FitsBounded(r.S)
        /\ FitStep(r.S, Ret("StoreFit", r.exc, "None", r.msg))

\* SetDecomposition(default_enable) through the API
CallSetDecomposition(default_enable) ==
    /\ showDecomp' = default_enable
    /\ heap' = SetDecomposition(Session, default_enable).heap
    /\ ret' = [Ret("SetDecomposition", "none", "None", "none")
                  EXCEPT !.args = [default_enable |-> default_enable]]
    /\ cmd' = NoCmd
    /\ UNCHANGED <<variables, spectra, workFit, viewport, cwd>>

\* ShowDecomposition(enable, sid, ids) through the API
CallShowDecomposition(enable, sid, ids) ==
    \E r \in {ShowDecomposition(Session, enable, sid, ids)} :
        FitStep(r.S, [Ret("ShowDecomposition", r.exc, "None", "none")
                         EXCEPT !.args = [enable |-> enable, sid |-> sid, ids |-> ids]])

\* QuickFit that keeps what the work fit held before
QuickFit_NoClear(pos, cursor) ==
    LET x            == IF pos = None THEN cursor ELSE pos[1]
        region_width == OptionsGet(variables, "fit.quickfit.region")
        S1           == SetMarker(Session, "region", FloatSub(x, FloatHalf(region_width)))
        S2           == SetMarker(S1, "region", FloatAdd(x, FloatHalf(region_width)))
        S3           == SetMarker(S2, "peak", x)
    IN  FitStep(ExecuteFit(S3, TRUE),
                [Ret("QuickFit", "none", "None", "none") EXCEPT !.args = [pos |-> x]])

\* the body of QuickFit at the position x: clear, region pair, peak, fit
QuickFitOn(S, x) ==
    LET S0           == ClearFit(S, FALSE)
        region_width == OptionsGet(variables, "fit.quickfit.region")
        S1           == SetMarker(S0, "region", FloatSub(x, FloatHalf(region_width)))
        S2           == SetMarker(S1, "region", FloatAdd(x, FloatHalf(region_width)))
        S3           == SetMarker(S2, "peak", x)
    IN  ExecuteFit(S3, TRUE)

\* QuickFit(pos): hotkey Q (pos is None: the cursor position) and the API
QuickFit(pos, cursor) ==
    LET x == IF pos = None THEN cursor ELSE pos[1]
    IN  FitStep(QuickFitOn(Session, x),
                [Ret("QuickFit", "none", "None", "none") EXCEPT !.args = [pos |-> x]])

\* hdtv.util.GetCompleteOptions: the options that begin with text
RECURSIVE GetCompleteOptions(_, _)
GetCompleteOptions(text, options) ==
    IF options = <<>> THEN <<>>
    ELSE (IF Len(text) <= Len(Head(options)) /\ SubSeq(Head(options), 1, Len(text)) = text
          THEN <<Head(options)>> ELSE <<>>)
             \o GetCompleteOptions(text, Tail(options))

\* MarkerCompleter(text, args): marker types without args, actions with one
MarkerCompleter(text, args) ==
    IF args = <<>>
    THEN GetCompleteOptions(text, << <<"b", "a", "c", "k", "g", "r", "o", "u", "n", "d">>,
                                     <<"r", "e", "g", "i", "o", "n">>,
                                     <<"p", "e", "a", "k">> >>)
    ELSE GetCompleteOptions(text, << <<"s", "e", "t">>, <<"d", "e", "l", "e", "t", "e">> >>)

\* the marker type the session knows for a completed type name
InternalType(name) ==
    CASE name = <<"b", "a", "c", "k", "g", "r", "o", "u", "n", "d">> -> "bg"
      [] name = <<"r", "e", "g", "i", "o", "n">> -> "region"
      [] OTHER -> "peak"

\* fit marker <type> <action> <position>
FitMarkerChange(args) ==
    LET mtype  == MarkerCompleter(args.type, <<>>)
        action == MarkerCompleter(args.action, <<args.action>>)
        pos    == args.position
    IN  IF Len(mtype) = 0
        THEN FitStep(Session, Ret("FitMarkerChange", "HDTVCommandError", "None",
                                  "Markertype %s is not valid"))
        ELSE IF Len(action) = 0
        THEN FitStep(Session, Ret("FitMarkerChange", "HDTVCommandError", "None",
                                  "Invalid action: %s"))
        ELSE IF Strip(action[1]) = <<"s", "e", "t">>
        THEN /\ NumMarkers(WorkFit(Session)) < MaxMarkers
             /\ FitStep(SetMarker(Session, InternalType(Strip(mtype[1])), pos),
                        Ret("SetMarker", "none", "None", InternalType(Strip(mtype[1]))))
        ELSE FitStep(RemoveMarker(Session, InternalType(Strip(mtype[1])), pos),
                     Ret("RemoveMarker", "none", "None", InternalType(Strip(mtype[1]))))

\* FitClear passing bg_only whatever the option says
FitClear_BackgroundOnly(args) ==
    FitStep(ClearFit(Session, TRUE),
            Ret("ClearFit", "none", "None",
                IF args.background_only THEN "bg_only" ELSE "all"))

\* fit clear [-b]
FitClear(args) ==
    FitStep(ClearFit(Session, args.background_only),
            Ret("ClearFit", "none", "None",
                IF args.background_only THEN "bg_only" ELSE "all"))

\* FitStore handing StoreFit that keeps the work fit object itself
FitStore_Alias(args) ==
    \E r \in {StoreFit_Alias(Session, args.fitids)} :
        /\ FitsBounded(r.S)
        /\ FitStep(r.S, Ret("StoreFit", IF r.exc = "IndexError" THEN "none" ELSE r.exc,
                            "None", r.msg))

\* fit store [fitids]
FitStore(args) ==
    \E r \in {StoreFit(Session, args.fitids)} :
        /\ FitsBounded(r.S)
        /\ FitStep(r.S, Ret("StoreFit", IF r.exc = "IndexError" THEN "none" ELSE r.exc,
                            "None", r.msg))

RECURSIVE SetInFits(_, _, _, _, _)
\* the loop of SetFitterParameter over ids: a missing id is passed over,
\* a ValueError of SetParameter ends the loop
SetInFits(h, fits, ids, parname, status) ==
    IF ids = <<>> THEN [exc |-> "none", heap |-> h]
    ELSE IF Head(ids) \notin Keys(fits)
    THEN SetInFits(h, fits, Tail(ids), parname, status)
    ELSE LET ref == fits.objects[Head(ids)]
             r   == SetParameter(h[ref], parname, status)
         IN  IF r.exc # "none" THEN [exc |-> r.exc, heap |-> h]
             ELSE SetInFits([h EXCEPT ![ref] = r.fit], fits, Tail(ids), parname, status)

\* SetFitterParameter undoing every change when a fit of the list fails
SetFitterParameter_Rollback(parname, status, ids) ==
    LET list == SplitOn(status, ",")
        w    == SetParameter(WorkFit(Session), parname, list)
        S1   == [Session EXCEPT !.heap[workFit] = w.fit]
        msg  == IF w.exc = "ValueError" THEN "while editing active Fit" ELSE "none"
        spec == GetActiveObject(spectra)
        r0   == [Ret("SetFitterParameter", "none", "None", msg)
                    EXCEPT !.args = [parname |-> parname, status |-> status]]
    IN  IF ids = None \/ ids = Some(<<>>)
        THEN FitStep(S1, r0)
        ELSE IF spec = None
        THEN FitStep(Session, [r0 EXCEPT !.exc = "AttributeError",
                                         !.msg = "No active spectrum", !.ids = ids[1]])
        ELSE LET r == SetInFits(S1.heap, spec[1].fits, ids[1], parname, list)
             IN  FitStep(IF r.exc # "none" \/ ~(Range(ids[1]) \subseteq Keys(spec[1].fits))
                         THEN Session
                         ELSE [S1 EXCEPT !.heap = r.heap],
                         [r0 EXCEPT !.exc = r.exc, !.ids = ids[1]])

\* SetFitterParameter(parname, status, ids): the work fit always, and the
\* stored fits ids of the active spectrum when ids are given
SetFitterParameter(parname, status, ids) ==
    LET list == SplitOn(status, ",")
        w    == SetParameter(WorkFit(Session), parname, list)
        S1   == [Session EXCEPT !.heap[workFit] = w.fit]
        msg  == IF w.exc = "ValueError" THEN "while editing active Fit" ELSE "none"
        spec == GetActiveObject(spectra)
        r0   == [Ret("SetFitterParameter", "none", "None", msg)
                    EXCEPT !.args = [parname |-> parname, status |-> status]]
    IN  IF ids = None \/ ids = Some(<<>>)
        THEN FitStep(S1, r0)
        ELSE IF spec = None
        THEN FitStep(S1, [r0 EXCEPT !.exc = "AttributeError", !.msg = "No active spectrum",
                                    !.ids = ids[1]])
        ELSE LET r == SetInFits(S1.heap, spec[1].fits, ids[1], parname, list)
             IN  FitStep([S1 EXCEPT !.heap = r.heap],
                         [r0 EXCEPT !.exc = r.exc, !.ids = ids[1]])

\* fitter.ResetParamStatus() and fitter.SetPeakModel(name) on one fit
Refitted(fit, change) ==
    IF change.op = "reset" THEN [fit EXCEPT !.status = DefaultStatus]
    ELSE [fit EXCEPT !.peakModel = change.name]

RECURSIVE ChangeInFits(_, _, _, _)
\* the loop of ResetFitterParameters and of SetPeakModel over ids: spec.dict[ID]
\* raises KeyError for a missing id and the loop ends there
ChangeInFits(h, fits, ids, change) ==
    IF ids = <<>> THEN [exc |-> "none", heap |-> h]
    ELSE IF Head(ids) \notin Keys(fits) THEN [exc |-> "KeyError", heap |-> h]
    ELSE ChangeInFits([h EXCEPT ![fits.objects[Head(ids)]] = Refitted(@, change)],
                      fits, Tail(ids), change)

\* the work fit always, and the stored fits ids of the active spectrum when
\* ids are given
ChangeFitters(op, change, ids) ==
    LET S1   == [Session EXCEPT !.heap[workFit] = Refitted(@, change)]
        spec == GetActiveObject(spectra)
        r0   == [Ret(op, "none", "None", "none") EXCEPT !.args = change]
    IN  IF ids = None \/ ids = Some(<<>>)
        THEN FitStep(S1, r0)
        ELSE IF spec = None
        THEN FitStep(S1, [r0 EXCEPT !.exc = "AttributeError", !.msg = "No active spectrum",
                                    !.ids = ids[1]])
        ELSE \E r \in {ChangeInFits(S1.heap, spec[1].fits, ids[1], change)} :
                 FitStep([S1 EXCEPT !.heap = r.heap], [r0 EXCEPT !.exc = r.exc, !.ids = ids[1]])

\* ResetFitterParameters(ids)
ResetFitterParameters(ids) ==
    ChangeFitters("ResetFitterParameters", [op |-> "reset"], ids)

\* SetPeakModel(peakmodel, ids)
SetPeakModel(peakmodel, ids) ==
    ChangeFitters("SetPeakModel", [op |-> "model", name |-> peakmodel], ids)

\* the parameter names of a peak model, in the order the fit reports them
ModelParams(name) ==
    IF name = "theuerkauf" THEN <<"pos", "vol", "width", "tl", "tr", "sh", "sw">>
    ELSE <<"pos", "amp", "sigma1", "sigma2", "eta", "gamma", "vol">>

\* fit.ExtractParams(): one row per fitted peak, and the parameter names
ExtractParams(fit) ==
    [peaklist  |-> [i \in 1..Len(fit.peaks) |->
                       [pos |-> fit.peaks[i], model |-> fit.peakModel]],
     fitparams |-> ModelParams(fit.peakModel)]

RECURSIVE AppendNew(_, _)
\* for p in fitparams: if p not in params: params.append(p)
AppendNew(params, fitparams) ==
    IF fitparams = <<>> THEN params
    ELSE AppendNew(IF \E i \in 1..Len(params) : params[i] = Head(fitparams) THEN params
                   ELSE Append(params, Head(fitparams)),
                   Tail(fitparams))

RECURSIVE ExtractLoop_ParamsFirst(_, _, _)
\* the loop of ExtractFits with the parameter names taken before the test
\* for an empty peak list
ExtractLoop_ParamsFirst(fits, fitlist, params) ==
    IF fits = <<>> THEN [fitlist |-> fitlist, params |-> params]
    ELSE LET e == ExtractParams(Head(fits))
         IN  ExtractLoop_ParamsFirst(Tail(fits), fitlist \o e.peaklist,
                                     AppendNew(params, e.fitparams))

RECURSIVE ExtractLoop(_, _, _)
\* the loop of ExtractFits over the fits
ExtractLoop(fits, fitlist, params) ==
    IF fits = <<>> THEN [fitlist |-> fitlist, params |-> params]
    ELSE LET e == ExtractParams(Head(fits))
         IN  IF Len(e.peaklist) = 0 THEN ExtractLoop(Tail(fits), fitlist, params)
             ELSE ExtractLoop(Tail(fits), fitlist \o e.peaklist,
                              AppendNew(params, e.fitparams))

\* ExtractFits(fits): the rows and the column names of the table of fits
ExtractFits(fits) == ExtractLoop(fits, <<>>, <<>>)

RECURSIVE InsertRow(_, _)
\* the sorted rows with one more row, behind the rows that are not larger
InsertRow(rows, row) ==
    IF rows = <<>> THEN <<row>>
    ELSE IF Scaled(Head(rows).pos, 4) <= Scaled(row.pos, 4)
    THEN <<Head(rows)>> \o InsertRow(Tail(rows), row)
    ELSE <<row>> \o rows

RECURSIVE SortRows(_)
SortRows(rows) ==
    IF rows = <<>> THEN <<>>
    ELSE InsertRow(SortRows(SubSeq(rows, 1, Len(rows) - 1)), rows[Len(rows)])

Reversed(rows) == [i \in 1..Len(rows) |-> rows[Len(rows) + 1 - i]]

\* hdtv.util.Table: the rows sorted by the column sortBy (of the values of
\* a row only the position is kept, the rows are equal in other columns);
\* KeyError for a sortBy that is not a column
Table(objects, params, sortBy, reverseSort) ==
    IF sortBy # None /\ \A i \in 1..Len(params) : params[i] # sortBy[1]
    THEN [exc |-> "KeyError", rows |-> <<>>, columns |-> params]
    ELSE LET sorted == IF sortBy = Some("pos") THEN SortRows(objects) ELSE objects
         IN  [exc |-> "none", columns |-> params,
              rows |-> IF sortBy # None /\ reverseSort THEN Reversed(sorted) ELSE sorted]

\* ListFits(sid, ids, sortBy, reverseSort): the table of the stored fits ids
\* of the spectrum sid (the active one, all its fits, by default)
ListFits(sid, ids, sortBy, reverseSort) ==
    LET sid1 == IF sid = None THEN spectra.activeID ELSE sid
        r0   == [Ret("ListFits", "none", "None", "none")
                    EXCEPT !.args = [sid |-> sid, ids |-> ids, sortBy |-> sortBy,
                                     reverseSort |-> reverseSort]]
    IN  IF sid1 = None \/ sid1[1] \notin Keys(spectra)
        THEN FitStep(Session, [r0 EXCEPT !.exc = "KeyError"])
        ELSE LET fits == spectra.objects[sid1[1]].fits
                 ids1 == IF ids = None THEN SortedSeq(Keys(fits)) ELSE ids[1]
             IN  IF Keys(fits) = {}
                 THEN FitStep(Session, [r0 EXCEPT !.msg = "No fits"])
                 ELSE IF \E i \in 1..Len(ids1) : ids1[i] \notin Keys(fits)
                 THEN FitStep(Session, [r0 EXCEPT !.exc = "KeyError"])
                 ELSE \E e \in {ExtractFits([i \in 1..Len(ids1) |->
                                                heap[fits.objects[ids1[i]]]])} :
                      \E t \in {Table(e.fitlist, e.params, sortBy, reverseSort)} :
                          FitStep(Session,
                                  [r0 EXCEPT !.exc = IF t.exc = "KeyError"
                                                     THEN "HDTVCommandError" ELSE "none",
                                             !.ids = ids1, !.msg = "table",
                                             !.value = [objects |-> e.fitlist,
                                                        params |-> e.params,
                                                        rows |-> t.rows,
                                                        count_fits |-> Len(ids1)]])

\* window.FocusObjects(fits): the viewport is moved onto the fits
FocusObjects(vp, refs) == [vp EXCEPT !.focus = refs]

RECURSIVE ShowLoop_SpectraIds(_, _, _, _)
\* the loop of FitShow with the fit ids resolved against the Spectra container
ShowLoop_SpectraIds(st, sids, args, inverse) ==
    IF sids = <<>> THEN st
    ELSE LET sid  == Head(sids).major
             spec == st.spectra.objects[sid]
             r    == ParseIds(args.fitids, st.spectra, TRUE)
             ids  == Range(Majors(r.ids))
         IN  IF r.exc # "none" THEN [st EXCEPT !.exc = r.exc]
             ELSE ShowLoop_SpectraIds(
                      [st EXCEPT !.spectra.objects[sid].fits =
                                     IF inverse THEN HideObjects(@, ids)
                                     ELSE ShowObjects(@, ids),
                                 !.ids = Majors(r.ids),
                                 !.viewport =
                                     IF ~inverse /\ args.adjust_viewport
                                     THEN FocusObjects(@, {spec.fits.objects[k] :
                                                              k \in ids \cap Keys(spec.fits)})
                                     ELSE @],
                      Tail(sids), args, inverse)

RECURSIVE ShowLoop(_, _, _, _)
\* the loop of FitShow over the spectra sids
ShowLoop(st, sids, args, inverse) ==
    IF sids = <<>> THEN st
    ELSE LET sid  == Head(sids).major
             spec == st.spectra.objects[sid]
             r    == ParseIds(args.fitids, spec.fits, TRUE)
             ids  == Range(Majors(r.ids))
         IN  IF r.exc # "none" THEN [st EXCEPT !.exc = r.exc]
             ELSE ShowLoop(
                      [st EXCEPT !.spectra.objects[sid].fits =
                                     IF inverse THEN HideObjects(@, ids)
                                     ELSE ShowObjects(@, ids),
                                 !.ids = Majors(r.ids),
                                 !.viewport =
                                     IF ~inverse /\ args.adjust_viewport
                                     THEN FocusObjects(@, {spec.fits.objects[k] : k \in ids})
                                     ELSE @],
                      Tail(sids), args, inverse)

\* fit show [-s spectrum] [-v] <fitids>, and as FitHide with inverse
FitShow(args, inverse) ==
    LET sids == ParseIds(args.spectrum, spectra, TRUE)
    IN  \E st \in {ShowLoop([spectra |-> spectra, viewport |-> viewport,
                             exc |-> sids.exc, ids |-> <<>>],
                            sids.ids, args, inverse)} :
            /\ spectra' = st.spectra
            /\ viewport' = st.viewport
            /\ ret' = [Ret(IF inverse THEN "FitHide" ELSE "FitShow", st.exc, "None", "none")
                          EXCEPT !.ids = st.ids, !.args = args]
            /\ cmd' = NoCmd
            /\ UNCHANGED <<variables, showDecomp, heap, workFit, cwd>>

\* fit hide [-s spectrum] <fitids>
FitHide(args) == FitShow(args, TRUE)

\* ExecuteRefit without the test of the background degree
ExecuteRefit_NoDegreeCheck(S, specID, fitID, peaks) ==
    IF specID \notin Keys(S.spectra)
    THEN [exc |-> "KeyError", msg |-> "invalid spectrum ID", S |-> S, drawn |-> FALSE]
    ELSE IF fitID \notin Keys(S.spectra.objects[specID].fits)
    THEN [exc |-> "KeyError", msg |-> "invalid fit ID", S |-> S, drawn |-> FALSE]
    ELSE [exc |-> "none", msg |-> "none", drawn |-> TRUE,
          S |-> [S EXCEPT !.heap[S.spectra.objects[specID].fits.objects[fitID]] =
                              Fitted(@, peaks)]]

\* ExecuteRefit(specID, fitID, peaks): fit a stored fit again and draw it
ExecuteRefit(S, specID, fitID, peaks) ==
    IF specID \notin Keys(S.spectra)
    THEN [exc |-> "KeyError", msg |-> "invalid spectrum ID", S |-> S, drawn |-> FALSE]
    ELSE IF fitID \notin Keys(S.spectra.objects[specID].fits)
    THEN [exc |-> "KeyError", msg |-> "invalid fit ID", S |-> S, drawn |-> FALSE]
    ELSE IF ~peaks /\ S.heap[S.spectra.objects[specID].fits.objects[fitID]].bgdeg = 0 - 1
    THEN [exc |-> "RuntimeError", msg |-> "background degree of -1", S |-> S,
          drawn |-> FALSE]
    ELSE [exc |-> "none", msg |-> "none", drawn |-> TRUE,
          S |-> [S EXCEPT !.heap[S.spectra.objects[specID].fits.objects[fitID]] =
                              Fitted(@, peaks)]]

\* a call of ExecuteRefit through the API; ret.ids lists what was drawn
CallExecuteRefit(specID, fitID, peaks) ==
    \E r \in {ExecuteRefit(Session, specID, fitID, peaks)} :
        FitStep(r.S, [Ret("ExecuteRefit", r.exc, "None", r.msg)
                         EXCEPT !.args = [specID |-> specID, fitID |-> fitID,
                                          peaks |-> peaks],
                                !.ids = IF r.drawn THEN <<[spec |-> specID, fit |-> fitID]>>
                                        ELSE <<>>])

RECURSIVE RefitLoop(_, _, _, _)
\* the loop of FitExecute over the fits of one spectrum: KeyError and
\* RuntimeError of ExecuteRefit become warnings and the loop goes on
RefitLoop(st, specID, fitIDs, peaks) ==
    IF fitIDs = <<>> THEN st
    ELSE CHOOSE res \in
           { RefitLoop(
                 IF r.exc = "none"
                 THEN [st EXCEPT !.S = r.S,
                                 !.drawn = Append(@, [spec |-> specID, fit |-> Head(fitIDs)])]
                 ELSE [st EXCEPT !.warnings = Append(@, [spec |-> specID,
                                                         fit |-> Head(fitIDs),
                                                         msg |-> r.msg])],
                 specID, Tail(fitIDs), peaks) :
             r \in {ExecuteRefit(st.S, specID, Head(fitIDs), peaks)} } : TRUE

\* FitExecute on one spectrum: it becomes the active one; without fit ids
\* the work fit is fitted (and stored on request), else the fits are refitted
ExecuteOne(st, specID, args, doPeaks) ==
    CHOOSE res \in
      { IF r.exc # "none" THEN [st EXCEPT !.S = r.S, !.exc = r.exc]
        ELSE IF r.ids # <<>>
        THEN RefitLoop([st EXCEPT !.S = r.S], specID, Majors(r.ids), doPeaks)
        ELSE [st EXCEPT !.S =
                 CHOOSE S3 \in
                   { IF args.store THEN StoreFit(S2, None).S ELSE S2 :
                     S2 \in {IF args.quick # None THEN QuickFitOn(r.S, args.quick[1])
                             ELSE ExecuteFit(r.S, doPeaks)} } : TRUE] :
        r \in { [S   |-> [st.S EXCEPT !.spectra = ActivateObject(@, Some(specID)).c],
                  exc |-> p.exc, ids |-> p.ids] :
                  p \in {ParseIds(args.fitids, st.S.spectra.objects[specID].fits, TRUE)} } } :
      TRUE

RECURSIVE ExecuteLoop(_, _, _, _)
\* the loop of FitExecute over the spectra; a ValueError of ParseIds ends it
ExecuteLoop(st, specIDs, args, doPeaks) ==
    IF specIDs = <<>> \/ st.exc # "none" THEN st
    ELSE ExecuteLoop(ExecuteOne(st, Head(specIDs).major, args, doPeaks),
                     Tail(specIDs), args, doPeaks)

\* fit execute [-s spectrum] [-b] [-q pos] [-S] <fitids>
FitExecute(args) ==
    LET specIDs == ParseIds(args.spectrum, spectra, TRUE)
        r0      == [Ret("FitExecute", specIDs.exc, "None", "none") EXCEPT !.args = args]
    IN  IF specIDs.exc # "none"
        THEN FitStep(Session, r0)
        ELSE IF specIDs.ids = <<>>
        THEN FitStep(Session, [r0 EXCEPT !.msg = "No spectrum to work on"])
        ELSE \E st \in {ExecuteLoop([S |-> Session, exc |-> "none", drawn |-> <<>>,
                                     warnings |-> <<>>],
                                    specIDs.ids, args, ~args.background)} :
               /\ FitsBounded(st.S)
               /\ FitStep(IF st.exc = "none" /\ spectra.activeID # None
                          THEN [st.S EXCEPT !.spectra =
                                    ActivateObject(@, spectra.activeID).c]
                          ELSE st.S,
                          [r0 EXCEPT !.exc = st.exc, !.ids = st.drawn,
                                     !.warnings = st.warnings])

(***************************************************************************)
(* Activation of a stored fit                                              *)
(***************************************************************************)

\* session.ActivateFit(ID, sid): marks the stored fit ID of the spectrum sid as
\* active and copies its markers to the work fit; with None no fit is active
ActivateFit(S, ID, sid) ==
    IF ID = None
    THEN [S EXCEPT !.spectra.objects[sid].fits.activeID = None]
    ELSE LET fit == S.heap[S.spectra.objects[sid].fits.objects[ID[1]]]
         IN  [S EXCEPT !.spectra.objects[sid].fits.activeID = ID,
                       !.heap[S.workFit].bg = fit.bg,
                       !.heap[S.workFit].region = fit.region,
                       !.heap[S.workFit].peak = fit.peak]

\* the hotkey to activate a fit: args is the text the user typed
FitHotkeyActivate(args) ==
    LET spec == GetActiveObject(spectra)
        r0   == [Ret("FitHotkeyActivate", "none", "None", "none") EXCEPT !.args = args]
    IN  IF spec = None
        THEN FitStep(Session, [r0 EXCEPT !.msg = "No active spectrum"])
        ELSE \E p \in {ParseIds(args, spec[1].fits, TRUE)} :
               IF p.exc = "ValueError"
               THEN FitStep(Session, [r0 EXCEPT !.msg = "Invalid fit identifier"])
               ELSE IF Len(p.ids) = 1
               THEN FitStep(ActivateFit(Session, Some(p.ids[1].major), spectra.activeID[1]),
                            [r0 EXCEPT !.msg = "Activating fit", !.ids = Majors(p.ids)])
               ELSE IF Len(p.ids) = 0
               THEN FitStep(ActivateFit(Session, None, spectra.activeID[1]),
                            [r0 EXCEPT !.msg = "Deactivating fit"])
               ELSE FitStep(Session, [r0 EXCEPT !.msg = "Can only activate one fit",
                                                !.ids = Majors(p.ids)])

\* fit activate activating the first of several fits
FitActivate_First(args) ==
    LET sid == spectra.activeID
        r0  == [Ret("FitActivate", "none", "None", "none") EXCEPT !.args = args.fitids]
    IN  IF sid = None
        THEN FitStep(Session, [r0 EXCEPT !.msg = "No active spectrum"])
        ELSE \E p \in {ParseIds(args.fitids, spectra.objects[sid[1]].fits, TRUE)} :
               IF p.exc = "ValueError"
               THEN FitStep(Session, [r0 EXCEPT !.exc = "ValueError"])
               ELSE IF Len(p.ids) >= 1
               THEN FitStep(ActivateFit(Session, Some(p.ids[1].major), sid[1]),
                            [r0 EXCEPT !.msg = "Activating fit", !.ids = Majors(p.ids)])
               ELSE FitStep(ActivateFit(Session, None, sid[1]),
                            [r0 EXCEPT !.msg = "Deactivating fit"])

\* fit activate <fitids>
FitActivate(args) ==
    LET sid == spectra.activeID
        r0  == [Ret("FitActivate", "none", "None", "none") EXCEPT !.args = args.fitids]
    IN  IF sid = None
        THEN FitStep(Session, [r0 EXCEPT !.msg = "No active spectrum"])
        ELSE \E p \in {ParseIds(args.fitids, spectra.objects[sid[1]].fits, TRUE)} :
               IF p.exc = "ValueError"
               THEN FitStep(Session, [r0 EXCEPT !.exc = "ValueError"])
               ELSE IF Len(p.ids) = 1
               THEN FitStep(ActivateFit(Session, Some(p.ids[1].major), sid[1]),
                            [r0 EXCEPT !.msg = "Activating fit", !.ids = Majors(p.ids)])
               ELSE IF Len(p.ids) = 0
               THEN FitStep(ActivateFit(Session, None, sid[1]),
                            [r0 EXCEPT !.msg = "Deactivating fit"])
               ELSE FitStep(Session, [r0 EXCEPT !.exc = "HDTVCommandError",
                                                !.msg = "Can only activate one fit",
                                                !.ids = Majors(p.ids)])

(***************************************************************************)
(* The command table and the dispatch of an input line                     *)
(***************************************************************************)

\* the level of a command that is registered without one
DefaultLevel == 1

\* the number of positional arguments a parser with nargs '+' or '*' is given at most
MaxArgs == 4

\* one parser: its store_true options, its options with a value (those of
\* type float among them) and the number of its positional arguments (those
\* of type float among them)
ArgSpec(flags, valued, floatOpts, minargs, maxargs, floatArgs) ==
    [flags |-> flags, valued |-> valued, floatOpts |-> floatOpts,
     minargs |-> minargs, maxargs |-> maxargs, floatArgs |-> floatArgs]

\* one entry of the command table
Command(path, handler, level, argSpec) ==
    [path |-> path, handler |-> handler, level |-> level, argSpec |-> argSpec]

\* the commands TvFitInterface.__init__ registers
RegisteredCommands ==
    { \* 425-446
      Command(<<<<"f", "i", "t">>, <<"e", "x", "e", "c", "u", "t", "e">>>>, "FitExecute", 0,
              ArgSpec({<<"-", "b">>, <<"-", "-", "b", "a", "c", "k", "g", "r", "o", "u", "n", "d">>, <<"-", "S">>, <<"-", "-", "s", "t", "o", "r", "e">>}, {<<"-", "s">>, <<"-", "-", "s", "p", "e", "c", "t", "r", "u", "m">>, <<"-", "q">>, <<"-", "-", "q", "u", "i", "c", "k">>},
                      {<<"-", "q">>, <<"-", "-", "q", "u", "i", "c", "k">>}, 1, 1, {})),
      \* 452-469
      Command(<<<<"f", "i", "t">>, <<"m", "a", "r", "k", "e", "r">>>>, "FitMarkerChange", DefaultLevel,
              ArgSpec({}, {},
                      {}, 3, 3, {3})),
      \* 471-481
      Command(<<<<"f", "i", "t">>, <<"c", "l", "e", "a", "r">>>>, "FitClear", DefaultLevel,
              ArgSpec({<<"-", "b">>, <<"-", "-", "b", "a", "c", "k", "g", "r", "o", "u", "n", "d", "_", "o", "n", "l", "y">>}, {},
                      {}, 0, 0, {})),
      \* 483-492
      Command(<<<<"f", "i", "t">>, <<"s", "t", "o", "r", "e">>>>, "FitStore", DefaultLevel,
              ArgSpec({}, {},
                      {}, 0, 1, {})),
      \* 494-502
      Command(<<<<"f", "i", "t">>, <<"a", "c", "t", "i", "v", "a", "t", "e">>>>, "FitActivate", DefaultLevel,
              ArgSpec({}, {},
                      {}, 1, 1, {})),
      \* 504-515
      Command(<<<<"f", "i", "t">>, <<"d", "e", "l", "e", "t", "e">>>>, "FitDelete", DefaultLevel,
              ArgSpec({}, {<<"-", "s">>, <<"-", "-", "s", "p", "e", "c", "t", "r", "u", "m">>},
                      {}, 1, MaxArgs, {})),
      \* 517-533
      Command(<<<<"f", "i", "t">>, <<"s", "h", "o", "w">>>>, "FitShow", DefaultLevel,
              ArgSpec({<<"-", "v">>, <<"-", "-", "a", "d", "j", "u", "s", "t", "-", "v", "i", "e", "w", "p", "o", "r", "t">>}, {<<"-", "s">>, <<"-", "-", "s", "p", "e", "c", "t", "r", "u", "m">>},
                      {}, 1, 1, {})),
      \* 535-545
      Command(<<<<"f", "i", "t">>, <<"h", "i", "d", "e">>>>, "FitHide", DefaultLevel,
              ArgSpec({}, {<<"-", "s">>, <<"-", "-", "s", "p", "e", "c", "t", "r", "u", "m">>},
                      {}, 1, 1, {})),
      \* 547-557
      Command(<<<<"f", "i", "t">>, <<"s", "h", "o", "w">>, <<"d", "e", "c", "o", "m", "p", "o", "s", "i", "t", "i", "o", "n">>>>, "FitShowDecomp", DefaultLevel,
              ArgSpec({}, {<<"-", "s">>, <<"-", "-", "s", "p", "e", "c", "t", "r", "u", "m">>},
                      {}, 1, 1, {})),
      \* 559-569
      Command(<<<<"f", "i", "t">>, <<"h", "i", "d", "e">>, <<"d", "e", "c", "o", "m", "p", "o", "s", "i", "t", "i", "o", "n">>>>, "FitHideDecomp", DefaultLevel,
              ArgSpec({}, {<<"-", "s">>, <<"-", "-", "s", "p", "e", "c", "t", "r", "u", "m">>},
                      {}, 1, 1, {})),
      \* 571-581
      Command(<<<<"f", "i", "t">>, <<"f", "o", "c", "u", "s">>>>, "FitFocus", DefaultLevel,
              ArgSpec({}, {<<"-", "s">>, <<"-", "-", "s", "p", "e", "c", "t", "r", "u", "m">>},
                      {}, 1, 1, {})),
      \* 583-615
      Command(<<<<"f", "i", "t">>, <<"l", "i", "s", "t">>>>, "FitList", DefaultLevel,
              ArgSpec({<<"-", "v">>, <<"-", "-", "v", "i", "s", "i", "b", "l", "e">>, <<"-", "r">>, <<"-", "-", "r", "e", "v", "e", "r", "s", "e", "-", "s", "o", "r", "t">>}, {<<"-", "k">>, <<"-", "-", "k", "e", "y", "-", "s", "o", "r", "t">>, <<"-", "s">>, <<"-", "-", "s", "p", "e", "c", "t", "r", "u", "m">>, <<"-", "f">>, <<"-", "-", "f", "i", "t">>},
                      {}, 0, 0, {})),
      \* 617-635
      Command(<<<<"f", "i", "t">>, <<"p", "a", "r", "a", "m", "e", "t", "e", "r">>>>, "FitParam", DefaultLevel,
              ArgSpec({}, {<<"-", "f">>, <<"-", "-", "f", "i", "t">>},
                      {}, 1, MaxArgs, {})),
      \* 637-648
      Command(<<<<"f", "i", "t">>, <<"f", "u", "n", "c", "t", "i", "o", "n">>, <<"p", "e", "a", "k">>, <<"a", "c", "t", "i", "v", "a", "t", "e">>>>, "FitSetPeakModel", DefaultLevel,
              ArgSpec({}, {<<"-", "f">>, <<"-", "-", "f", "i", "t">>},
                      {}, 1, 1, {})) }

IsPrefix(p, t) == Len(p) <= Len(t) /\ SubSeq(t, 1, Len(p)) = p

\* the registered commands whose path is a prefix of the tokens
Matches(table, tokens) == {c \in table : IsPrefix(c.path, tokens)}

\* the commands below the group of commands the first n tokens name
Group(table, tokens, n) ==
    {c \in table : Len(c.path) > n /\ IsPrefix(SubSeq(tokens, 1, n), c.path)}

\* the commands of a group with the lowest level
Primary(G) == {c \in G : \A d \in G : c.level <= d.level}

\* FindCommand taking the shortest registered path that is a prefix
FindCommand_Shortest(table, tokens) ==
    LET M == Matches(table, tokens)
        N == {n \in 1..Len(tokens) : Group(table, tokens, n) # {}}
    IN  IF M # {}
        THEN LET c == CHOOSE c \in M : \A d \in M : Len(c.path) <= Len(d.path)
             IN  [found |-> TRUE, command |-> c,
                  args |-> SubSeq(tokens, Len(c.path) + 1, Len(tokens))]
        ELSE IF N # {}
        THEN LET n == CHOOSE n \in N : \A m \in N : m <= n
                 P == Primary(Group(table, tokens, n))
             IN  IF Cardinality(P) = 1
                 THEN [found |-> TRUE, command |-> CHOOSE c \in P : TRUE,
                       args |-> SubSeq(tokens, n + 1, Len(tokens))]
                 ELSE [found |-> FALSE]
        ELSE [found |-> FALSE]

\* The command an input resolves to: the command with the longest path that
\* is a prefix of the tokens; without one, the command of lowest level of the
\* group the tokens name ("fit execute", of level 0, is abbreviated as "fit").
FindCommand(table, tokens) ==
    LET M == Matches(table, tokens)
        N == {n \in 1..Len(tokens) : Group(table, tokens, n) # {}}
    IN  IF M # {}
        THEN LET c == CHOOSE c \in M : \A d \in M : Len(d.path) <= Len(c.path)
             IN  [found |-> TRUE, command |-> c,
                  args |-> SubSeq(tokens, Len(c.path) + 1, Len(tokens))]
        ELSE IF N # {}
        THEN LET n == CHOOSE n \in N : \A m \in N : m <= n
                 P == Primary(Group(table, tokens, n))
             IN  IF Cardinality(P) = 1
                 THEN [found |-> TRUE, command |-> CHOOSE c \in P : TRUE,
                       args |-> SubSeq(tokens, n + 1, Len(tokens))]
                 ELSE [found |-> FALSE]
        ELSE [found |-> FALSE]

\* a token the parser reads as an option: a dash first, and not a number
IsOption(tok) == Len(tok) > 1 /\ tok[1] = "-" /\ ~ParseFloat(tok).ok

RECURSIVE Positionals(_, _)
\* The positional arguments among the tokens, or "error" for an option the
\* parser does not know, an option without its value or with a value that is
\* no float where one is required.
Positionals(argSpec, tokens) ==
    IF tokens = <<>> THEN [ok |-> TRUE, args |-> <<>>]
    ELSE LET tok == Head(tokens)
         IN  IF ~IsOption(tok)
             THEN LET r == Positionals(argSpec, Tail(tokens))
                  IN  IF r.ok THEN [r EXCEPT !.args = <<tok>> \o @] ELSE r
             ELSE IF tok \in argSpec.flags
             THEN Positionals(argSpec, Tail(tokens))
             ELSE IF tok \in argSpec.valued
             THEN IF Len(tokens) < 2 \/ IsOption(tokens[2])
                     \/ (tok \in argSpec.floatOpts /\ ~ParseFloat(tokens[2]).ok)
                  THEN [ok |-> FALSE, args |-> <<>>]
                  ELSE Positionals(argSpec, SubSeq(tokens, 3, Len(tokens)))
             ELSE [ok |-> FALSE, args |-> <<>>]

\* the remaining tokens are arguments the parser of the command accepts
ParseArgs(argSpec, tokens) ==
    LET r == Positionals(argSpec, tokens)
    IN  /\ r.ok
        /\ Len(r.args) >= argSpec.minargs
        /\ Len(r.args) <= argSpec.maxargs
        /\ \A i \in argSpec.floatArgs : i \in 1..Len(r.args) => ParseFloat(r.args[i]).ok

\* Dispatch(inputLine): the handler that is invoked and its arguments, or the
\* error the line ends with; what the handler then does is the action of its
\* name.
Dispatch(inputLine) ==
    \E r \in {FindCommand(RegisteredCommands, SplitBlank(inputLine))} :
        /\ ret' = IF ~r.found
                  THEN [Ret("Dispatch", "UnknownCommand", "None", "none")
                           EXCEPT !.args = SplitBlank(inputLine)]
                  ELSE IF ~ParseArgs(r.command.argSpec, r.args)
                  THEN [Ret("Dispatch", "ArgumentError", "None", "none")
                           EXCEPT !.args = SplitBlank(inputLine)]
                  ELSE [Ret("Dispatch", "none", r.command.handler, "none")
                           EXCEPT !.args = SplitBlank(inputLine), !.ids = r.args]
        /\ cmd' = NoCmd
        /\ UNCHANGED <<variables, showDecomp, spectra, heap, workFit, viewport, cwd>>


(***************************************************************************)
(* Config commands (hdtv/plugins/config.py)                                *)
(***************************************************************************)
\* the command record of one run of a config command
CmdRecord(op, variable, raw, result, msg, out, ccb) ==
    [op |-> op, var |-> variable, raw |-> raw, result |-> result, msg |-> msg,
     out |-> out, ccb |-> ccb]

\* effect of the change callbacks a command invoked
\* (fit.display.decomp -> FitInterface.SetDecomposition)
RunCallbacks(ccb) ==
    /\ IF ccb = <<>> THEN UNCHANGED <<showDecomp, heap>>
       ELSE /\ showDecomp' = (ccb[1].m = 1)
            /\ heap' = SetDecomposition(Session, ccb[1].m = 1).heap
    /\ ret' = NoRet
    /\ UNCHANGED <<spectra, workFit, viewport, cwd>>

\* ConfigSet with the ValueError of the parse function printed, not raised
ConfigSet_PrintInvalid(variable, value) ==
    LET r == OptionsSet(variables, variable, value)
    IN  /\ variables' = r.vars
        /\ RunCallbacks(r.ccb)
        /\ cmd' = CmdRecord("set", variable, value,
                     IF r.exc = "KeyError" THEN "abort" ELSE "ok",
                     CASE r.exc = "KeyError"   -> "no such option"
                       [] r.exc = "ValueError" -> "invalid value"
                       [] OTHER                -> "none",
                     <<>>, r.ccb)

\* ConfigSet with the KeyError of the lookup printed, not raised
ConfigSet_PrintUnknown(variable, value) ==
    LET r == OptionsSet(variables, variable, value)
    IN  /\ variables' = r.vars
        /\ RunCallbacks(r.ccb)
        /\ cmd' = CmdRecord("set", variable, value,
                     IF r.exc = "ValueError" THEN "abort" ELSE "ok",
                     CASE r.exc = "KeyError"   -> "no such option"
                       [] r.exc = "ValueError" -> "invalid value"
                       [] OTHER                -> "none",
                     <<>>, r.ccb)

\* ConfigSet storing the raw string when the parse function rejects it
ConfigSet_StoreRaw(variable, value) ==
    LET r == OptionsSet(variables, variable, value)
    IN  /\ variables' = IF r.exc = "ValueError"
                        THEN [variables EXCEPT ![variable].value = StrV(value)]
                        ELSE r.vars
        /\ RunCallbacks(r.ccb)
        /\ cmd' = CmdRecord("set", variable, value,
                     IF r.exc = "KeyError" THEN "abort" ELSE "ok",
                     IF r.exc = "KeyError" THEN "no such option" ELSE "none",
                     <<>>, r.ccb)

\* config set <variable> <value>
ConfigSet(variable, value) ==
    LET r == OptionsSet(variables, variable, value)
    IN  /\ variables' = r.vars
        /\ RunCallbacks(r.ccb)
        /\ cmd' = CmdRecord("set", variable, value,
                     IF r.exc = "none" THEN "ok" ELSE "abort",
                     CASE r.exc = "KeyError"   -> "no such option"
                       [] r.exc = "ValueError" -> "invalid value"
                       [] OTHER                -> "none",
                     <<>>, r.ccb)

\* config show [variable]; an absent or empty variable prints the whole table
ConfigShow(variable) ==
    /\ UNCHANGED <<variables, showDecomp, spectra, heap, workFit, viewport, cwd>>
    /\ ret' = NoRet
    /\ IF variable # ""
       THEN LET r == OptionsShow(variables, variable)
            IN  cmd' = CmdRecord("show", variable, <<>>, "ok",
                          IF r.exc = "KeyError" THEN "no such option" ELSE "value",
                          r.text, <<>>)
       ELSE cmd' = CmdRecord("show", variable, <<>>, "ok", "listing", <<>>, <<>>)

\* ConfigReset resetting every option when no variable is named
ConfigReset_All(variable) ==
    /\ UNCHANGED <<showDecomp, spectra, heap, workFit, viewport, cwd>>
    /\ ret' = NoRet
    /\ IF variable # ""
       THEN LET r == OptionsReset(variables, variable)
            IN  /\ variables' = r.vars
                /\ cmd' = CmdRecord("reset", variable, <<>>, "ok",
                             IF r.exc = "KeyError" THEN "no such option" ELSE "none",
                             <<>>, <<>>)
       ELSE /\ variables' = [n \in DOMAIN variables |->
                                [variables[n] EXCEPT !.value = variables[n].default]]
            /\ cmd' = CmdRecord("reset", variable, <<>>, "ok", "listing", <<>>, <<>>)

\* config reset [variable]; an absent or empty variable prints the whole table
ConfigReset(variable) ==
    /\ UNCHANGED <<showDecomp, spectra, heap, workFit, viewport, cwd>>
    /\ ret' = NoRet
    /\ IF variable # ""
       THEN LET r == OptionsReset(variables, variable)
            IN  /\ variables' = r.vars
                /\ cmd' = CmdRecord("reset", variable, <<>>, "ok",
                             IF r.exc = "KeyError" THEN "no such option" ELSE "none",
                             <<>>, <<>>)
       ELSE /\ UNCHANGED variables
            /\ cmd' = CmdRecord("reset", variable, <<>>, "ok", "listing", <<>>, <<>>)

(***************************************************************************)
(* Inputs of the config commands                                           *)
(***************************************************************************)
RawAlphabet == {"1", "."}

\* raw values typed after `config set <variable>`
RawInputs ==
    SeqsUpTo(RawAlphabet, MaxRawLen)
        \cup { <<"1", "5">>, <<"1", "5", ".", "0">>, <<"2", "0">>, <<"-", "5">>,
               <<"t", "r", "u", "e">>, <<"T", "r", "u", "e">>,
               <<"f", "a", "l", "s", "e">>, <<"I", "D">> }

\* variable names typed by the user: the registered ones and one that is not
VarArgs == DOMAIN RegisteredOptions \cup {"no.such.option"}

\* a file argument: a bare name, a name with format, a pattern
FileArgs ==
    { <<"a">>, <<"b">>, <<"b", "a", "d">>, <<"*">>, <<"b", "*">>,
      <<"a", "'", "l", "c">>, <<"b", "'">>, <<"a", "'", "z">>, <<"~", "/", "a">>,
      <<"l", "k">> }

\* the batches of `spectrum get`
FileBatches ==
    { <<>>, << <<"a">>, <<"b", "a", "d">>, <<"b">> >>, << <<"l", "k">>, <<"a">> >>,
      << <<"b">>, <<"b">> >>, << <<"b", "*">>, <<"a", "'", "z">> >> }

\* the ids a user types: those that can be keys and one that never is
IdTokens == {NatToDigits(i) : i \in 0..MaxSpectra}

\* the argument lists of the spectrum commands
IdArgs ==
    {<<t>> : t \in IdTokens}
        \cup { << <<"0">>, <<"2">> >>, << <<"0", "-", "1">> >>, << <<"1", "-", "9">> >>,
               << <<"a", "l", "l">> >>, << <<"N", "o", "n", "e">> >>, << <<"x">> >>,
               << <<"1">>, <<"1", "-", "x">> >>, << <<"-", "1">> >> }

\* what a user types at a hotkey prompt
HotkeyArgs ==
    IdTokens \cup { <<"0", " ", "2">>, <<" ", "1", " ">>, <<"x">>, <<>>, <<"1", " ", "x">>,
                    <<"-", "1">> }

vars == <<variables, cmd, showDecomp, spectra, heap, workFit, viewport, cwd, ret>>

Init ==
    /\ variables = RegisteredOptions
    /\ cmd = NoCmd
    /\ showDecomp = FALSE
    /\ spectra = EmptyContainer
    /\ heap = (0 :> NewFit(FALSE))
    /\ workFit = 0
    /\ viewport = [locks |-> 0, focus |-> {}]
    /\ cwd = RootDir
    /\ ret = NoRet

SpectraNext ==
    \/ \E f \in FileArgs : LoadSpectra([str |-> TRUE, v |-> f])
    \/ \E args \in FileBatches : SpectrumGet(args)
    \/ \E arg \in HotkeyArgs : HotkeyShow(arg)
    \/ \E arg \in HotkeyArgs : HotkeyActivate(arg)
    \/ \E args \in IdArgs : SpectrumDelete(args)
    \/ \E args \in {a \in IdArgs : Len(a) = 1} : SpectrumActivate(args)
    \/ \E args \in IdArgs : SpectrumShow(args)

SpecSpectra == Init /\ [][SpectraNext]_vars

\* where the cursor stands when a hotkey is pressed
CursorPositions == {FloatV(FALSE, 10, 0)}

\* the positions given to QuickFit by a caller
QuickPositions == {FloatV(FALSE, 305, 1)}

MarkerTypes == {"bg", "region", "peak"}

\* argument lists of `fit marker`: full and abbreviated names, and bad ones
MarkerArgs ==
    [type : {<<"p">>, <<"b", "a", "c", "k", "g", "r", "o", "u", "n", "d">>},
     action : {<<"s">>, <<"d", "e", "l", "e", "t", "e">>},
     position : CursorPositions]
      \cup [type : {<<"r", "e", "g", "i", "o", "n">>, <<"x">>, <<>>},
            action : {<<"s", "e", "t">>, <<"x">>}, position : CursorPositions]

\* the fitids argument of `fit store`
StoreArgs == [fitids : {None, Some(<<"0">>), Some(<<"1">>), Some(<<"x">>), Some(<<>>)}]

\* no spectrum has a stored fit
NoStoredFits == \A i \in Keys(spectra) : Keys(spectra.objects[i].fits) = {}

FitNext ==
    \/ \E mtype \in MarkerTypes, cursor \in CursorPositions : HotkeySetMarker(mtype, cursor)
    \/ \E mtype \in MarkerTypes, cursor \in CursorPositions : HotkeyRemoveMarker(mtype, cursor)
    \/ \E peaks \in BOOLEAN : HotkeyExecuteFit(peaks)
    \/ \E bg_only \in BOOLEAN : HotkeyClearFit(bg_only)
    \/ NoStoredFits /\ HotkeyStoreFit
    \/ \E cursor \in CursorPositions : QuickFit(None, cursor)
    \/ \E args \in MarkerArgs : FitMarkerChange(args)
    \/ \E b \in BOOLEAN : FitClear([background_only |-> b])
    \/ \E args \in {a \in StoreArgs : a.fitids \notin {None, Some(<<"1">>)}} : FitStore(args)
    \/ Keys(spectra) = {} /\ SpectrumGet(<< <<"a">> >>)
    \/ SpectrumDelete(<< <<"a", "l", "l">> >>)

SpecFit == Init /\ [][FitNext]_vars

\* arguments of SetFitterParameter
ParamNames == {"pos", "background", "zz"}

StatusArgs == {StatusHold, <<"x">>}

FitIdLists == {None, Some(<<>>), Some(<<0>>), Some(<<1, 0>>), Some(<<5, 1>>)}

StoreNext ==
    \/ \E cursor \in CursorPositions : HotkeySetMarker("peak", cursor)
    \/ \E cursor \in CursorPositions : HotkeyRemoveMarker("peak", cursor)
    \/ \E b \in BOOLEAN : FitClear([background_only |-> b])
    \/ \E pos \in QuickPositions, cursor \in CursorPositions : QuickFit(Some(pos), cursor)
    \/ HotkeyStoreFit
    \/ \E args \in StoreArgs : FitStore(args)
    \/ \E parname \in ParamNames \ {"zz"}, status \in StatusArgs, ids \in FitIdLists :
           SetFitterParameter(parname, status, ids)
    \/ Keys(spectra) = {} /\ SpectrumGet(<< <<"a">> >>)
    \/ SpectrumDelete(<< <<"a", "l", "l">> >>)

SpecStore == Init /\ [][StoreNext]_vars

(***************************************************************************)
(* QuickFit under a region width the user configures                       *)
(***************************************************************************)
\* values typed after `config set fit.quickfit.region`
RegionInputs == { <<"5">>, <<"1", ".", "5">>, <<"-", "5">>, <<"x">> }

QuickNext ==
    \/ \E value \in RegionInputs : ConfigSet("fit.quickfit.region", value)
    \/ \E mtype \in MarkerTypes, cursor \in CursorPositions : HotkeySetMarker(mtype, cursor)
    \/ \E peaks \in BOOLEAN : HotkeyExecuteFit(peaks)
    \/ \E cursor \in CursorPositions : QuickFit(None, cursor)
    \/ \E pos \in QuickPositions, cursor \in CursorPositions : QuickFit(Some(pos), cursor)
    \/ Keys(spectra) = {} /\ SpectrumGet(<< <<"a">> >>)
    \/ SpectrumDelete(<< <<"a", "l", "l">> >>)

SpecQuick == Init /\ [][QuickNext]_vars

(***************************************************************************)
(* `fit show` and `fit hide` on spectra that hold stored fits                *)
(***************************************************************************)
\* an id expression is a list of tokens: <<a>> is the id a, <<a, b>> is a-b
IdTokenSet ==
    {<<a>> : a \in 0..MaxId} \cup {<<a, b>> : a, b \in 0..MaxId} \cup {<<2, 4>>, <<7>>}

IdExprs ==
    {<<t>> : t \in IdTokenSet}
        \cup {<<t, u>> : t \in {<<1, 3>>, <<2, 4>>, <<3>>}, u \in {<<7>>, <<0>>, <<0, 1>>}}

RenderToken(t) ==
    IF Len(t) = 1 THEN NatToDigits(t[1])
    ELSE NatToDigits(t[1]) \o <<"-">> \o NatToDigits(t[2])

RECURSIVE Render(_)
\* the text a user types for an id expression
Render(e) ==
    IF Len(e) = 1 THEN RenderToken(e[1])
    ELSE RenderToken(Head(e)) \o <<",">> \o Render(Tail(e))

\* texts that are not lists of ids and ranges
OtherIdTexts ==
    { <<"a", "l", "l">>, <<"n", "o", "n", "e">>, <<"a", "c", "t", "i", "v", "e">>,
      <<"x">>, <<"1", "-", "x">>, <<"1", ".", "2">>, <<"1", " ", "2">>, <<>> }

ShowArgs ==
    [spectrum : {<<"a", "c", "t", "i", "v", "e">>},
     fitids : {Render(e) : e \in IdExprs} \cup OtherIdTexts,
     adjust_viewport : {FALSE}]
      \cup [spectrum : {<<"a", "l", "l">>, <<"1">>, <<"x">>},
            fitids : {<<"0", "-", "2">>, <<"x">>},
            adjust_viewport : BOOLEAN]

HideArgs ==
    [spectrum : {<<"a", "c", "t", "i", "v", "e">>, <<"a", "l", "l">>},
     fitids : {<<"0">>, <<"2", "-", "4">>, <<"5", ",", "7">>, <<"a", "l", "l">>, <<"x">>}]

\* the sets of ids under which the fits of spectrum 0 were stored
FitKeySets == {{}, {0, 2}, {1, 2, 3}, {1, 2, 3, 4, 5, 7}}

\* a fit container with the keys K, fit K[n] being the Fit object base + n
FitsWithKeys(K, base) ==
    LET ks == SortedSeq(K)
    IN  [objects  |-> [k \in K |-> base + (CHOOSE n \in 1..Len(ks) : ks[n] = k)],
         activeID |-> None,
         visible  |-> K]

\* spectra a and b are loaded, a is active and fits were stored in both
InitIds ==
    \E K \in FitKeySets :
        LET a == [SetColor(FileSpectrum(<<"a">>, None).spec, ColorForID(0, 1, 1))
                     EXCEPT !.fits = FitsWithKeys(K, 0)]
            b == [SetColor(FileSpectrum(<<"b">>, None).spec, ColorForID(1, 1, 1))
                     EXCEPT !.fits = FitsWithKeys({0}, Cardinality(K))]
        IN  /\ variables = RegisteredOptions
            /\ cmd = NoCmd
            /\ showDecomp = FALSE
            /\ spectra = [objects |-> (0 :> a) @@ (1 :> b), activeID |-> Some(0),
                          visible |-> {0, 1}]
            /\ heap = [r \in 0..(Cardinality(K) + 1) |->
                          IF r = 0 THEN NewFit(FALSE)
                          ELSE [NewFit(FALSE) EXCEPT !.fitted = "peaks"]]
            /\ workFit = 0
            /\ viewport = [locks |-> 0, focus |-> {}]
            /\ cwd = RootDir
            /\ ret = NoRet

IdsNext ==
    \/ \E args \in ShowArgs : FitShow(args, FALSE)
    \/ \E args \in HideArgs : FitHide(args)

SpecIds == InitIds /\ [][IdsNext]_vars

(***************************************************************************)
(* `fit execute` and ExecuteRefit on spectra that hold stored fits          *)
(***************************************************************************)
\* the background degrees of the three stored fits: -1 is "no background"
BgDegrees == {<<0 - 1, 0, 0>>, <<0, 0 - 1, 0 - 1>>, <<0 - 1, 0 - 1, 0>>, <<0, 0, 0>>}

\* a stored fit with a fitted background and one peak marker
StoredBgFit(bgdeg) ==
    [NewFit(FALSE) EXCEPT !.fitted = "bg", !.bgdeg = bgdeg,
                          !.peak = <<FloatV(FALSE, 10, 0)>>]

\* spectra a and b are loaded, a is active; fits 0 and 1 are stored in a and
\* fit 0 in b
InitExec ==
    \E d \in BgDegrees :
        LET a == [SetColor(FileSpectrum(<<"a">>, None).spec, ColorForID(0, 1, 1))
                     EXCEPT !.fits = FitsWithKeys({0, 1}, 0)]
            b == [SetColor(FileSpectrum(<<"b">>, None).spec, ColorForID(1, 1, 1))
                     EXCEPT !.fits = FitsWithKeys({0}, 2)]
        IN  /\ variables = RegisteredOptions
            /\ cmd = NoCmd
            /\ showDecomp = FALSE
            /\ spectra = [objects |-> (0 :> a) @@ (1 :> b), activeID |-> Some(0),
                          visible |-> {0, 1}]
            /\ heap = [r \in 0..3 |-> IF r = 0 THEN NewFit(FALSE) ELSE StoredBgFit(d[r])]
            /\ workFit = 0
            /\ viewport = [locks |-> 0, focus |-> {}]
            /\ cwd = RootDir
            /\ ret = NoRet

\* argument lists of `fit execute`
ExecArgs ==
    [spectrum : {<<"a", "c", "t", "i", "v", "e">>, <<"a", "l", "l">>, <<"x">>},
     fitids : {<<"a", "l", "l">>, <<"1">>, <<"x">>},
     background : BOOLEAN, quick : {None}, store : {FALSE}]
      \cup [spectrum : {<<"5">>}, fitids : {<<"0">>},
            background : {FALSE}, quick : {None}, store : {FALSE}]
      \cup [spectrum : {<<"1">>}, fitids : {<<"n", "o", "n", "e">>},
            background : {FALSE}, quick : {None, Some(FloatV(FALSE, 305, 1))},
            store : {TRUE}]

ExecNext ==
    \/ \E args \in ExecArgs : FitExecute(args)
    \/ \E specID \in 0..2, fitID \in 0..1, peaks \in BOOLEAN :
           CallExecuteRefit(specID, fitID, peaks)
    \/ \E arg \in {<<"0">>, <<"1">>} : HotkeyActivate(arg)

SpecExec == InitExec /\ [][ExecNext]_vars

(***************************************************************************)
(* The fitter of the work fit and of stored fits                           *)
(***************************************************************************)
PeakModelNames == {"theuerkauf", "ee"}

\* the ids given to the parameter operations: fits 0 and 1 are stored in
\* spectrum 0 and fit 0 in spectrum 1; 5 is never a stored fit
ParamIdLists == {None, Some(<<0, 1>>), Some(<<1, 5, 0>>), Some(<<5, 1>>)}

ParamNext ==
    \/ \E parname \in ParamNames, status \in StatusArgs, ids \in ParamIdLists :
           SetFitterParameter(parname, status, ids)
    \/ \E ids \in ParamIdLists : ResetFitterParameters(ids)
    \/ \E name \in PeakModelNames, ids \in ParamIdLists : SetPeakModel(name, ids)
    \/ \E arg \in {<<"0">>, <<"1">>} : HotkeyActivate(arg)
    \/ SpectrumDelete(<< <<"0">> >>)

SpecParam == InitExec /\ [][ParamNext]_vars

(***************************************************************************)
(* Listing the stored fits                                                 *)
(***************************************************************************)
\* stored fits: without a peak, with two peaks, and of either peak model
FitSamples ==
    { [NewFit(FALSE) EXCEPT !.fitted = "bg", !.peakModel = "ee"],
      [NewFit(FALSE) EXCEPT !.fitted = "peaks",
                            !.peak = <<FloatV(FALSE, 10, 0), FloatV(FALSE, 25, 1)>>,
                            !.peaks = <<FloatV(FALSE, 10, 0), FloatV(FALSE, 25, 1)>>],
      [NewFit(FALSE) EXCEPT !.fitted = "peaks", !.peakModel = "ee",
                            !.peak = <<FloatV(FALSE, 7, 0)>>,
                            !.peaks = <<FloatV(FALSE, 7, 0)>>] }

\* spectrum a is loaded and active and holds the stored fits fs, as fits 0, 1, ...
InitList ==
    \E fs \in SeqsUpTo(FitSamples, MaxFits) :
        LET a == [SetColor(FileSpectrum(<<"a">>, None).spec, ColorForID(0, 1, 1))
                     EXCEPT !.fits = FitsWithKeys(0..(Len(fs) - 1), 0)]
        IN  /\ variables = RegisteredOptions
            /\ cmd = NoCmd
            /\ showDecomp = FALSE
            /\ spectra = [objects |-> (0 :> a), activeID |-> Some(0), visible |-> {0}]
            /\ heap = [r \in 0..Len(fs) |-> IF r = 0 THEN NewFit(FALSE) ELSE fs[r]]
            /\ workFit = 0
            /\ viewport = [locks |-> 0, focus |-> {}]
            /\ cwd = RootDir
            /\ ret = NoRet

\* the arguments of ListFits
ListArgs ==
    [sid : {None}, ids : {None, Some(<<1, 0>>), Some(<<0, 0>>), Some(<<5>>)},
     sortBy : {None}, reverseSort : {FALSE}]
      \cup [sid : {Some(0), Some(3)}, ids : {None},
            sortBy : {Some("pos"), Some("amp")}, reverseSort : BOOLEAN]

ListNext ==
    \/ \E pos \in QuickPositions, cursor \in CursorPositions : QuickFit(Some(pos), cursor)
    \/ HotkeyExecuteFit(FALSE)
    \/ \E name \in PeakModelNames : SetPeakModel(name, None)
    \/ HotkeyStoreFit
    \/ \E a \in ListArgs : ListFits(a.sid, a.ids, a.sortBy, a.reverseSort)

SpecList == InitList /\ [][ListNext]_vars

(***************************************************************************)
(* Calibration lists                                                       *)
(***************************************************************************)
\* lines of a calibration list, each with what it asks for: nothing, a
\* calibration (name and coefficients), or nothing that can be read
CalLineSamples ==
    { [kind |-> "blank", text |-> <<" ", " ">>],
      [kind |-> "blank", text |-> <<"#", "a", ":", "1">>],
      [kind |-> "entry", text |-> <<" ", "a", " ", ":", "1", " ", " ", "2", ".", "5", "#", "x">>,
       name |-> <<"a">>, coeff |-> <<FloatV(FALSE, 1, 0), FloatV(FALSE, 25, 1)>>],
      [kind |-> "entry", text |-> <<"a", ":">>, name |-> <<"a">>, coeff |-> <<>>],
      [kind |-> "entry", text |-> <<"b", ":", "-", "3">>,
       name |-> <<"b">>, coeff |-> <<FloatV(TRUE, 3, 0)>>],
      [kind |-> "entry", text |-> <<"c", ":", " ", "1">>,
       name |-> <<"c">>, coeff |-> <<FloatV(FALSE, 1, 0)>>],
      [kind |-> "malformed", text |-> <<"a", " ", "1">>],
      [kind |-> "malformed", text |-> <<"b", ":", " ", "x">>] }

CalLines == {d.text : d \in CalLineSamples}

\* the calibration lists: of no line, of one line, and some of more lines
CalFiles ==
    SeqsUpTo(CalLines, 1)
      \cup { << <<"a", " ", "1">>, <<"a", ":">> >>,
             << <<"b", ":", "-", "3">>, <<"b", ":", " ", "x">>,
                <<" ", "a", " ", ":", "1", " ", " ", "2", ".", "5", "#", "x">> >>,
             << <<" ", " ">>, <<"b", ":", " ", "x">>, <<"#", "a", ":", "1">>,
                <<"a", " ", "1">>, <<"b", ":", "-", "3">> >>,
             << <<" ", "a", " ", ":", "1", " ", " ", "2", ".", "5", "#", "x">>,
                <<"a", ":">> >>,
             << <<"c", ":", " ", "1">>, <<"b", ":", "-", "3">>, <<"c", ":", " ", "1">> >>,
             << <<"a", ":">>,
                <<" ", "a", " ", ":", "1", " ", " ", "2", ".", "5", "#", "x">>,
                <<"a", ":">> >> }

\* an object of the container that is no Spectrum, and a Spectrum without a
\* histogram
OtherObject == [name |-> <<"a">>, color |-> None, cal |-> <<>>, fits |-> EmptyContainer]

NoHistogram == [FileSpectrum(<<"a">>, None).spec EXCEPT !.fHist = None]

\* the objects of the container, under the ids 0, 1, ...
CalContainers ==
    { <<>>,
      <<FileSpectrum(<<"a">>, None).spec>>,
      <<FileSpectrum(<<"a">>, None).spec, FileSpectrum(<<"a">>, None).spec>>,
      <<NoHistogram, FileSpectrum(<<"b">>, None).spec, FileSpectrum(<<"a">>, None).spec>>,
      <<OtherObject, FileSpectrum(<<"a">>, None).spec, NoHistogram>> }

InitCal ==
    \E objs \in CalContainers :
        /\ variables = RegisteredOptions
        /\ cmd = NoCmd
        /\ showDecomp = FALSE
        /\ spectra = [objects  |-> [k \in 0..(Len(objs) - 1) |->
                                       [objs[k + 1] EXCEPT !.color = Some(ColorForID(k, 1, 1))]],
                      activeID |-> None,
                      visible  |-> 0..(Len(objs) - 1)]
        /\ heap = (0 :> NewFit(FALSE))
        /\ workFit = 0
        /\ viewport = [locks |-> 0, focus |-> {}]
        /\ cwd = RootDir
        /\ ret = NoRet

CalNext ==
    \/ \E content \in {Some(f) : f \in CalFiles} \cup {None},
          warn_notfound \in BOOLEAN :
           ReadCalibrationList(<<"~", "/", "c">>, content, warn_notfound)
    \/ \E name \in {<<"a">>, <<"b">>, <<"c">>, <<>>} : FindSpectrumByName(name)

SpecCal == InitCal /\ [][CalNext]_vars

(***************************************************************************)
(* The display of the decomposition of fits                                *)
(***************************************************************************)
\* values typed after `config set fit.display.decomp`
DecompInputs == { <<"t", "r", "u", "e">>, <<"F", "a", "l", "s", "e">>, <<"1">> }

\* the fits ShowDecomposition is called for
DecompTargets ==
    [sid : {None}, ids : {None, Some({1})}]
      \cup [sid : {Some(1)}, ids : {Some({0}), Some({5})}]

DecompNext ==
    \/ \E value \in DecompInputs : ConfigSet("fit.display.decomp", value)
    \/ \E default_enable \in BOOLEAN : CallSetDecomposition(default_enable)
    \/ \E enable \in BOOLEAN, t \in DecompTargets : CallShowDecomposition(enable, t.sid, t.ids)
    \/ \E arg \in {<<"0">>, <<"1">>} : HotkeyActivate(arg)
    \/ \E cursor \in CursorPositions : HotkeySetMarker("peak", cursor)
    \/ \E arg \in {<<"1">>} : HotkeyShow(arg)

SpecDecomp == InitExec /\ [][DecompNext]_vars

(***************************************************************************)
(* Activation of stored fits of two spectra                                *)
(***************************************************************************)

\* the id expressions given to fit activate and to the hotkey
ActivateArgs ==
    { <<"0">>, <<"1">>, <<"5">>, <<"0", ",", "1">>, <<"0", "-", "1">>, <<"1", ",", "5">>,
      <<"a", "l", "l">>, <<"n", "o", "n", "e">>, <<"a", "c", "t", "i", "v", "e">>,
      <<"x">>, <<>> }

ActivateNext ==
    \/ \E args \in ActivateArgs : FitHotkeyActivate(args)
    \/ \E args \in ActivateArgs : FitActivate([fitids |-> args])
    \/ \E arg \in {<<"0">>, <<"1">>} : HotkeyActivate(arg)
    \/ \E mtype \in {"peak", "region"}, cursor \in CursorPositions : HotkeySetMarker(mtype, cursor)
    \/ SpectrumDelete(<< <<"0">> >>)

SpecActivate == InitExec /\ [][ActivateNext]_vars

(***************************************************************************)
(* The calibration commands on prepared containers                         *)
(***************************************************************************)

\* the id arguments of a calibration command
CalIdArgs ==
    { <<>>, << <<"0">> >>, << <<"5">> >>, << <<"5">>, <<"1">> >>,
      << <<"0">>, <<"7">>, <<"1">> >>, << <<"0", "-", "3">> >>, << <<"a", "l", "l">> >>,
      << <<"n", "o", "n", "e">> >>, << <<"x">> >>, << <<"1">>, <<"x">> >> }

\* the arguments of calibration position read
CalReadArgs == { <<>> } \cup { << <<"c">> >> \o ids : ids \in CalIdArgs }

\* the arguments of calibration position enter
CalEnterArgs ==
    { << <<"0">>, <<"0">>, <<"1">>, <<"2">> >> \o ids : ids \in CalIdArgs }
        \cup { << <<"0">>, <<"x">>, <<"1">>, <<"2">>, <<"0">> >>, << <<"1">>, <<"2">> >> }

\* the arguments of calibration position set
CalSetArgs ==
    { << <<"1">>, <<"0">>, <<"2">> >> \o ids : ids \in CalIdArgs }
        \cup { <<>>, << <<"x">>, <<"0">>, <<"2">> >>, << <<"1">>, <<"y">>, <<"2">>, <<"0">> >>,
               << <<"0">>, <<"3">>, <<"1">> >>, << <<"-", "3">>, <<"4">>, <<"1">> >> }

CalPosNext ==
    \/ \E args \in CalReadArgs : CalPosRead(args)
    \/ \E args \in CalEnterArgs : CalPosEnter(args)
    \/ \E args \in CalSetArgs : CalPosSet(args)
    \/ \E arg \in {<<"0">>, <<"1">>} : HotkeyActivate(arg)

SpecCalPos == InitCal /\ [][CalPosNext]_vars

(***************************************************************************)
(* The cd command in a small directory tree                                *)
(***************************************************************************)

\* the arguments of cd: none, or one path
CdArgs ==
    { <<>>,
      <<<<>>>>,
      <<<<"/">>>>,
      <<<<"/", "t", "m", "p">>>>,
      <<<<"t", "m", "p">>>>,
      <<<<".", ".">>>>,
      <<<<"a">>>>,
      <<<<"/", "t", "m", "p", "/", "a">>>>,
      <<<<"b">>>>,
      <<<<"~">>>>,
      <<<<"~", "/", "d">>>>,
      <<<<"/", "n", "o", "p", "e">>>>,
      <<<<"n", "o", "p", "e">>>>,
      <<<<"/", "l", "o", "c", "k">>>>,
      <<<<"l", "o", "c", "k">>>>,
      <<<<"/", "l", "o", "c", "k", "/", "i", "n">>>>,
      <<<<"d">>>>,
      <<<<"v", "a", "r">>>>,
      <<<<".">>>>,
      <<<<".", ".", "/", ".", ".">>>>,
      <<<<"a", "/", "b">>>>,
      <<<<"h">>>>,
      <<<<"/", "t", "m", "p", "/", "a", "/", "b">>>>,
      <<<<".", ".", "/", "v", "a", "r">>>> }

CdNext == \E args \in CdArgs : Cd(args)

SpecCd == Init /\ [][CdNext]_vars

(***************************************************************************)
(* Input lines of the command line                                         *)
(***************************************************************************)

\* what a line begins with
LineHeads ==
    { <<"f", "i", "t">>,
      <<"f", "i", "t", " ", "s", "h", "o", "w">>,
      <<"f", "i", "t", " ", "h", "i", "d", "e">>,
      <<"f", "i", "t", " ", "s", "h", "o", "w", " ", "d", "e", "c", "o", "m", "p", "o", "s", "i", "t", "i", "o", "n">>,
      <<"f", "i", "t", " ", "h", "i", "d", "e", " ", "d", "e", "c", "o", "m", "p", "o", "s", "i", "t", "i", "o", "n">>,
      <<"f", "i", "t", " ", "e", "x", "e", "c", "u", "t", "e">>,
      <<"f", "i", "t", " ", "f", "u", "n", "c", "t", "i", "o", "n">>,
      <<"f", "i", "t", " ", "f", "u", "n", "c", "t", "i", "o", "n", " ", "p", "e", "a", "k">>,
      <<"f", "i", "t", " ", "l", "i", "s", "t">>,
      <<"f", "i", "t", " ", "s", "t", "o", "r", "e">>,
      <<"f", "i", "t", " ", "m", "a", "r", "k", "e", "r">>,
      <<"f", "o", "o">>,
      <<"s", "h", "o", "w", " ", "d", "e", "c", "o", "m", "p", "o", "s", "i", "t", "i", "o", "n">>,
      <<>>,
      <<"f", "i", "t", " ", "f", "o", "o">>,
      <<"f", "i", "t", " ", "d", "e", "c", "o", "m", "p", "o", "s", "i", "t", "i", "o", "n">> }

\* what a line goes on with
LineTails ==
    { <<>>,
      <<"0">>,
      <<"-", "s", " ", "1", " ", "0">>,
      <<"-", "s">>,
      <<"-", "x", " ", "0">>,
      <<"0", " ", "1">>,
      <<"d", "e", "c", "o", "m", "p", "o", "s", "i", "t", "i", "o", "n">>,
      <<"s", "h", "o", "w", " ", "0">>,
      <<"-", "b", " ", "0">>,
      <<"-", "q", " ", "x", " ", "0">>,
      <<"p", " ", "s", " ", "1", ".", "5">> }

\* the blanks between the two parts of a line
Blanks == { <<" ">>, <<" ", " ">> }

DispatchLines == {h \o b \o t : h \in LineHeads, b \in Blanks, t \in LineTails}

DispatchNext == \E inputLine \in DispatchLines : Dispatch(inputLine)

SpecDispatch == Init /\ [][DispatchNext]_vars


ConfigNext ==
    \/ \E variable \in VarArgs, value \in RawInputs : ConfigSet(variable, value)
    \/ \E variable \in VarArgs \cup {""} : ConfigShow(variable)
    \/ \E variable \in VarArgs \cup {""} : ConfigReset(variable)

SpecConfig == Init /\ [][ConfigNext]_vars

(***************************************************************************)
(* Claims about the config commands (checked under SpecConfig)             *)
(***************************************************************************)
QuickfitRegion == "fit.quickfit.region"

\* C1: for a registered option, `config set` succeeds exactly when the
\* option's parse function accepts the raw value; then the option holds the
\* parsed value and a following `config show` of it prints that value
\* (fit.quickfit.region set with "15" shows "15.0"); otherwise the command
\* aborts with the invalid-value message and no option value has changed.
C1_SetThenGet ==
    [][ /\ (cmd'.op = "set" /\ cmd'.var \in DOMAIN variables) =>
              LET p == OptionParse(cmd'.var, cmd'.raw)
              IN  IF p.ok
                  THEN /\ cmd'.result = "ok"
                       /\ OptionsGet(variables', cmd'.var) = p.val
                  ELSE /\ cmd'.result = "abort"
                       /\ cmd'.msg = "invalid value"
                       /\ variables' = variables
        /\ (cmd.op = "set" /\ cmd.result = "ok" /\ cmd'.op = "show"
              /\ cmd'.var = cmd.var) =>
              /\ cmd'.msg = "value"
              /\ cmd'.out = ValueStr(OptionParse(cmd.var, cmd.raw).val)
        /\ (cmd.op = "set" /\ cmd.var = QuickfitRegion /\ cmd.raw = <<"1", "5">>
              /\ cmd'.op = "show" /\ cmd'.var = QuickfitRegion) =>
              cmd'.out = <<"1", "5", ".", "0">>
      ]_vars

\* `config show fit.quickfit.region` printing 15.0 (the default is 20.0)
C1_Witness ==
    /\ cmd.op = "show"
    /\ cmd.var = QuickfitRegion
    /\ cmd.out = <<"1", "5", ".", "0">>

\* C2: `config set` on a name that is not registered aborts with the
\* unknown-option message, invokes no change callback and leaves every option
\* value and the set of registered names as they were.
C2_SetUnknown ==
    [][ (cmd'.op = "set" /\ cmd'.var \notin DOMAIN variables) =>
            /\ cmd'.result = "abort"
            /\ cmd'.msg = "no such option"
            /\ cmd'.ccb = <<>>
            /\ showDecomp' = showDecomp
            /\ DOMAIN variables' = DOMAIN variables
            /\ variables' = variables
      ]_vars

\* a set on an unregistered name, after some option left its default
C2_Witness ==
    /\ cmd.op = "set"
    /\ cmd.var \notin DOMAIN variables
    /\ \E n \in DOMAIN variables : variables[n].value # variables[n].default

\* C3: `config show <var>` and `config reset <var>` on a name that is not
\* registered give the message and abort the command, as `config set` does.
C3_ShowResetUnknownAbort ==
    (cmd.op \in {"show", "reset"} /\ cmd.var # "" /\ cmd.var \notin DOMAIN variables)
        => (cmd.msg = "no such option" /\ cmd.result = "abort")

\* the values a parse function can return for option n
OptionValueRange(n) ==
    {OptionParse(n, raw).val : raw \in {r \in RawInputs : OptionParse(n, r).ok}}

\* C4: every stored value is the default or a value the option's parse
\* function returns, and a stored value changes only by a reset to the
\* default or by a successful set to the parse result of its raw value.
C4_StoredValues ==
    /\ [](\A n \in DOMAIN variables :
            \/ variables[n].value = variables[n].default
            \/ variables[n].value \in OptionValueRange(n))
    /\ [][ \A n \in DOMAIN variables :
            variables'[n].value # variables[n].value =>
                \/ /\ cmd'.op = "reset"
                   /\ cmd'.var = n
                   /\ variables'[n].value = variables[n].default
                \/ /\ cmd'.op = "set"
                   /\ cmd'.var = n
                   /\ cmd'.result = "ok"
                   /\ OptionParse(n, cmd'.raw).ok
                   /\ variables'[n].value = OptionParse(n, cmd'.raw).val
         ]_vars

\* a rejected set while two options hold values that were set before
C4_Witness ==
    /\ cmd.op = "set"
    /\ cmd.result = "abort"
    /\ cmd.msg = "invalid value"
    /\ variables[QuickfitRegion].value # variables[QuickfitRegion].default
    /\ variables["fit.list.sort_key"].value # variables["fit.list.sort_key"].default

(***************************************************************************)
(* Claims about the Spectra container (checked under SpecSpectra)          *)
(***************************************************************************)
\* C5: the active id of the Spectra container is unset or one of its keys,
\* and its visible set is a subset of its keys.
C5_ContainerInvariant ==
    /\ (spectra.activeID = None \/ spectra.activeID[1] \in Keys(spectra))
    /\ spectra.visible \subseteq Keys(spectra)

\* the active spectrum was deleted while others stay, one of them visible
C5_Witness ==
    /\ ret.op = "SpectrumDelete"
    /\ spectra.activeID = None
    /\ spectra.visible # {}
    /\ spectra.visible # Keys(spectra)

\* the files of a batch that can be read, in order
Readable(atts) ==
    LET good == {i \in 1..Len(atts) : FileSpectrum(atts[i].fname, atts[i].fmt).exc = "none"}
        idx  == SortedSeq(good)
    IN  [k \in 1..Len(idx) |-> atts[idx[k]]]

\* what C7 says of a load of the entries in list
C7_Post(list) ==
    LET atts == BatchFiles(list)
        good == Readable(atts)
    IN  /\ ret'.exc = "none"
        /\ Len(ret'.loaded) = Len(atts) - (Len(atts) - Len(good))
        /\ Len(ret'.warnings) = Len(atts) - Len(good)
        /\ \A k \in 1..Len(good) :
              /\ ret'.loaded[k] \in Keys(spectra')
              /\ spectra'.objects[ret'.loaded[k]].name = good[k].fname

\* C7: a load of N files of which M cannot be read raises nothing, returns
\* N-M ids, prints M warnings, and every readable file of the batch is in the
\* container under the id returned for it.
C7_PartialLoad ==
    [][ /\ ret'.op = "LoadSpectra" =>
              \A f \in FileArgs :
                  LoadSpectra([str |-> TRUE, v |-> f]) => C7_Post(<<f>>)
        /\ ret'.op = "SpectrumGet" =>
              \A args \in FileBatches : SpectrumGet(args) => C7_Post(args)
      ]_vars

\* a batch with a failing file between two files that load
C7_Witness ==
    /\ ret.op = "SpectrumGet"
    /\ Len(ret.warnings) = 1
    /\ Len(ret.loaded) = 2
    /\ spectra.objects[ret.loaded[1]].name = <<"a">>
    /\ spectra.objects[ret.loaded[2]].name = <<"b">>

\* the smallest non-negative integer that is not in S
SmallestFree(S) ==
    CHOOSE i \in 0..Cardinality(S) : i \notin S /\ \A j \in 0..(i - 1) : j \in S

\* what C8 says of one load
C8_Post ==
    LET ids == ret'.loaded
    IN  /\ \A k \in 1..Len(ids) :
              ids[k] = SmallestFree(Keys(spectra) \cup {ids[j] : j \in 1..(k - 1)})
        /\ \A j, k \in 1..Len(ids) : j # k => ids[j] # ids[k]
        /\ \A k \in 1..Len(ids) : ids[k] \notin Keys(spectra)
        /\ \A i \in Keys(spectra) :
              i \in Keys(spectra') /\ spectra'.objects[i] = spectra.objects[i]

\* C8: every loaded spectrum gets the smallest id that is free at that
\* moment: the ids of one call are distinct, no spectrum already there is
\* overwritten, a freed id is taken again, and the colour is that of the id.
C8_FreeIds ==
    /\ [](\A i \in Keys(spectra) : spectra.objects[i].color = Some(ColorForID(i, 1, 1)))
    /\ [][ ret'.op \in {"LoadSpectra", "SpectrumGet"} => C8_Post ]_vars

\* id 0, freed by a delete, is given to the next spectrum while 1 and 2 stay
C8_Witness ==
    /\ ret.op \in {"LoadSpectra", "SpectrumGet"}
    /\ ret.loaded = <<0>>
    /\ Keys(spectra) = {0, 1, 2}

(***************************************************************************)
(* Claims about the identifier resolver                                    *)
(***************************************************************************)
\* the ids of [lo, hi] that are in K, ascending
InRange(lo, hi, K) == SortedSeq({k \in K : lo <= k /\ k <= hi})

RECURSIVE Expected(_, _)
\* what the claim says an id expression resolves to on the keys K
Expected(e, K) ==
    IF e = <<>> THEN <<>>
    ELSE InRange(Head(e)[1], Head(e)[Len(Head(e))], K) \o Expected(Tail(e), K)

FitsOf(i) == spectra.objects[i].fits

\* C6: with only existing ids asked for, a-b resolves to the keys of the
\* container in [a, b], a comma list to the results of its tokens in order,
\* "2-4,7" on the keys {1,2,3,4,5,7} to [2,3,4,7], and `fit show` shows
\* exactly the fits so resolved, all of them keys of the container.
C6_ParseIds ==
    /\ [](\A i \in Keys(spectra) : \A e \in IdExprs :
             LET r == ParseIds(Render(e), FitsOf(i), TRUE)
             IN  /\ r.exc = "none"
                 /\ Majors(r.ids) = Expected(e, Keys(FitsOf(i)))
                 /\ \A n \in 1..Len(r.ids) :
                       r.ids[n].minor = None /\ r.ids[n].major \in Keys(FitsOf(i)))
    /\ [](\A i \in Keys(spectra) :
             Keys(FitsOf(i)) = {1, 2, 3, 4, 5, 7} =>
                 Majors(ParseIds(<<"2", "-", "4", ",", "7">>, FitsOf(i), TRUE).ids)
                     = <<2, 3, 4, 7>>)
    /\ [][ ret'.op = "FitShow" /\ spectra.activeID # None
                                /\ ret'.args.spectrum = <<"a", "c", "t", "i", "v", "e">> =>
              \A e \in IdExprs :
                  ret'.args.fitids = Render(e)
                  => /\ ret'.exc = "none"
                     /\ ret'.ids = Expected(e, Keys(FitsOf(spectra.activeID[1])))
                     /\ spectra'.objects[spectra.activeID[1]].fits.visible
                            = Range(Expected(e, Keys(FitsOf(spectra.activeID[1]))))
         ]_vars

\* `fit show 2-4,7` on the fits {1,2,3,4,5,7} of the active spectrum
C6_Witness ==
    /\ ret.op = "FitShow"
    /\ ret.ids = <<2, 3, 4, 7>>
    /\ spectra.activeID = Some(0)
    /\ Keys(FitsOf(0)) = {1, 2, 3, 4, 5, 7}
    /\ FitsOf(0).visible = {2, 3, 4, 7}

(***************************************************************************)
(* Claims about the work fit and the stored fits                           *)
(***************************************************************************)
\* the statement as written: no markers after any StoreFit or ClearFit
C9_IdleAfterStoreOrClear ==
    ret.op \in {"StoreFit", "ClearFit"} => NoMarkers(heap[workFit])

\* C9: markers of any type are added one at a time in any order, and after a
\* StoreFit that stored the fit, or a ClearFit that is not restricted to the
\* background, the work fit has no markers and no result: it is Idle again.
C9_Lifecycle ==
    /\ []( \/ ret.op = "StoreFit" /\ ret.msg = "Storing workFit"
           \/ ret.op = "ClearFit" /\ ret.msg = "all"
           => NoMarkers(heap[workFit]) /\ heap[workFit].fitted = "none" )
    /\ [][ /\ ret'.op = "SetMarker" =>
                 /\ NumMarkers(heap'[workFit']) = NumMarkers(heap[workFit]) + 1
                 /\ Len(Markers(heap'[workFit'], ret'.msg))
                        = Len(Markers(heap[workFit], ret'.msg)) + 1
           /\ ret'.op = "ClearFit" /\ ret'.msg = "bg_only" =>
                 /\ heap'[workFit'].bg = <<>>
                 /\ heap'[workFit'].region = heap[workFit].region
                 /\ heap'[workFit'].peak = heap[workFit].peak
         ]_vars

\* a fit with background and peak markers was executed and stored
C9_Witness ==
    /\ ret.op = "StoreFit"
    /\ ret.msg = "Storing workFit"
    /\ NoMarkers(heap[workFit])
    /\ \E i \in Keys(spectra) : \E k \in Keys(spectra.objects[i].fits) :
          /\ heap[spectra.objects[i].fits.objects[k]].bg # <<>>
          /\ heap[spectra.objects[i].fits.objects[k]].peak # <<>>

\* the stored Fit object of fit k of spectrum i in a session
StoredFit(S, i, k) == S.heap[S.spectra.objects[i].fits.objects[k]]

HasFit(S, i, k) == i \in Keys(S.spectra) /\ k \in Keys(S.spectra.objects[i].fits)

SessionAfter == [spectra |-> spectra', heap |-> heap', workFit |-> workFit']

\* C10: a store puts a copy of the work fit, a Fit object of its own, into
\* the fit container of the active spectrum, and a later marker change,
\* clear, parameter change or quick fit leaves every stored fit as it was,
\* but for the fitter of the fits whose ids the operation was given.
C10_StoreCopies ==
    [][ /\ ret'.op = "StoreFit" /\ ret'.msg = "Storing workFit" =>
              \E k \in Keys(spectra'.objects[spectra.activeID[1]].fits) :
                  LET ref == spectra'.objects[spectra.activeID[1]].fits.objects[k]
                  IN  /\ ref # workFit'
                      /\ heap'[ref] = heap[workFit]
                      /\ \A j \in Keys(spectra.objects[spectra.activeID[1]].fits) \ {k} :
                            StoredFit(SessionAfter, spectra.activeID[1], j)
                                = StoredFit(Session, spectra.activeID[1], j)
        /\ ret'.op \in {"SetMarker", "RemoveMarker", "ClearFit", "QuickFit",
                        "SetFitterParameter"} =>
              \A i \in Keys(spectra) : \A k \in Keys(spectra.objects[i].fits) :
                  /\ HasFit(SessionAfter, i, k)
                  /\ StoredFit(SessionAfter, i, k).bg = StoredFit(Session, i, k).bg
                  /\ StoredFit(SessionAfter, i, k).region = StoredFit(Session, i, k).region
                  /\ StoredFit(SessionAfter, i, k).peak = StoredFit(Session, i, k).peak
                  /\ StoredFit(SessionAfter, i, k).peaks = StoredFit(Session, i, k).peaks
                  /\ StoredFit(SessionAfter, i, k).fitted = StoredFit(Session, i, k).fitted
                  /\ \/ ret'.op = "SetFitterParameter" /\ k \in Range(ret'.ids)
                     \/ StoredFit(SessionAfter, i, k) = StoredFit(Session, i, k)
      ]_vars

\* two fits are stored, the work fit has been given new markers by a quick
\* fit, and the parameter of fit 0 alone has been changed through its id
C10_Witness ==
    /\ ret.op = "QuickFit"
    /\ \E i \in Keys(spectra) :
          /\ Keys(spectra.objects[i].fits) = {0, 1}
          /\ StoredFit(Session, i, 0).status.pos = <<StatusHold>>
          /\ StoredFit(Session, i, 1).status.pos = <<StatusFree>>
          /\ StoredFit(Session, i, 1).peak = <<>>
          /\ heap[workFit].peak # <<>>
          /\ heap[workFit].status.pos = <<StatusHold>>

(***************************************************************************)
(* Claims about QuickFit (checked under SpecQuick)                         *)
(***************************************************************************)
\* the integer v * 10^4
Fixed(v) == Scaled(v, 4)

\* what QuickFit leaves on the work fit apart from the region markers
QuickRest(S, f, x) ==
    /\ f.bg = <<>>
    /\ Len(f.region) = 2
    /\ f.peak = <<x>>
    /\ IF S.activeID = None THEN f.fitted = "none" /\ f.peaks = <<>>
       ELSE f.fitted = "peaks" /\ f.peaks = <<x>>

\* C11 as stated: after QuickFit(pos) the work fit holds nothing it held
\* before, two region markers each at a distance from pos equal to the value
\* of fit.quickfit.region, one peak marker at pos, and the fit of that peak.
C11_QuickFitFullWidth ==
    [][ret'.op = "QuickFit" =>
          LET x == ret'.args.pos
              w == OptionsGet(variables, "fit.quickfit.region")
              f == heap'[workFit']
          IN  /\ QuickRest(spectra, f, x)
              /\ Distance(f.region[1], x, 4) = Fixed(w)
              /\ Distance(f.region[2], x, 4) = Fixed(w)
              /\ Fixed(f.region[1]) + Fixed(f.region[2]) = 2 * Fixed(x)]_vars

\* C11 (amended): after QuickFit(pos) the work fit holds nothing it held
\* before; its region markers are pos - w/2 and pos + w/2, in that order,
\* for w the value of fit.quickfit.region (the width of the region, not its
\* half); its one peak marker is pos; and with an active spectrum the fit
\* was executed after the markers were placed, so its one peak is at pos.
C11_QuickFit ==
    [][ret'.op = "QuickFit" =>
          LET x == ret'.args.pos
              w == OptionsGet(variables, "fit.quickfit.region")
              f == heap'[workFit']
          IN  /\ QuickRest(spectra, f, x)
              /\ 2 * (Fixed(x) - Fixed(f.region[1])) = Fixed(w)
              /\ 2 * (Fixed(f.region[2]) - Fixed(x)) = Fixed(w)]_vars

\* a quick fit of the active spectrum under a width the user set to 1.5
C11_Witness ==
    /\ ret.op = "QuickFit"
    /\ spectra.activeID # None
    /\ OptionsGet(variables, "fit.quickfit.region") = FloatV(FALSE, 15, 1)
    /\ WorkFit(Session).region = <<FloatV(FALSE, 2975, 2), FloatV(FALSE, 3125, 2)>>
    /\ WorkFit(Session).peaks = <<FloatV(FALSE, 305, 1)>>

(***************************************************************************)
(* Claims about refitting stored fits (checked under SpecExec)             *)
(***************************************************************************)
\* the Fit object stored as fit k of spectrum i
FitRef(S, i, k) == S.spectra.objects[i].fits.objects[k]

\* a background-only refit of a fit that has no background
NoBackground(S, i, k, peaks) ==
    /\ HasFit(S, i, k)
    /\ ~peaks
    /\ StoredFit(S, i, k).bgdeg = 0 - 1

\* the ids a text names in a container, as `fit execute` reads them
Named(text, c) == Range(Majors(ParseIds(text, c, TRUE).ids))

\* the texts of args name ids: no ParseIds of the command raises
WellFormed(args) ==
    /\ ParseIds(args.spectrum, spectra, TRUE).exc = "none"
    /\ \A i \in Named(args.spectrum, spectra) :
           ParseIds(args.fitids, spectra.objects[i].fits, TRUE).exc = "none"

\* C12: ExecuteRefit(specId, fitId, peaks) fails with KeyError for a
\* spectrum or fit id that is not stored and with RuntimeError for a
\* background refit of a fit with background degree -1; a failing call
\* changes no fit and draws nothing. `fit execute` turns such a failure
\* into a warning and still refits and draws every other fit it names, in
\* every spectrum it names.
C12_RefitFailures ==
    [][/\ ret'.op = "ExecuteRefit" =>
            LET a == ret'.args
            IN  /\ ~HasFit(Session, a.specID, a.fitID) =>
                       ret'.exc = "KeyError" /\ heap' = heap /\ ret'.ids = <<>>
                /\ NoBackground(Session, a.specID, a.fitID, a.peaks) =>
                       ret'.exc = "RuntimeError" /\ heap' = heap /\ ret'.ids = <<>>
       /\ (ret'.op = "FitExecute" /\ WellFormed(ret'.args)) =>
            /\ ret'.exc = "none"
            /\ \A i \in Named(ret'.args.spectrum, spectra) :
                 \A k \in Named(ret'.args.fitids, spectra.objects[i].fits) :
                   LET ref == FitRef(Session, i, k)
                       id  == [spec |-> i, fit |-> k]
                   IN  IF NoBackground(Session, i, k, ~ret'.args.background)
                       THEN /\ heap'[ref] = heap[ref]
                            /\ id \notin Range(ret'.ids)
                            /\ [spec |-> i, fit |-> k, msg |-> "background degree of -1"]
                                   \in Range(ret'.warnings)
                       ELSE /\ id \in Range(ret'.ids)
                            /\ ~ret'.args.background => heap'[ref].fitted = "peaks"
                            /\ \A w \in Range(ret'.warnings) :
                                   w.spec # i \/ w.fit # k]_vars

\* a background refit of all fits of all spectra where fit 0 of spectrum 0
\* has no background: it gave a warning, and fit 1 and the fit of spectrum 1
\* were refitted and drawn after it
C12_Witness ==
    /\ ret.op = "FitExecute"
    /\ ret.args.background
    /\ ret.args.spectrum = <<"a", "l", "l">>
    /\ ret.warnings = <<[spec |-> 0, fit |-> 0, msg |-> "background degree of -1"]>>
    /\ ret.ids = <<[spec |-> 0, fit |-> 1], [spec |-> 1, fit |-> 0]>>

(***************************************************************************)
(* Claims about the fitter parameters (checked under SpecParam)            *)
(***************************************************************************)
\* the fit holds the status given for the parameter
HasParameter(fit, parname, status) ==
    IF parname = "background" THEN fit.bgdeg = ParseInt(status).v
    ELSE fit.status[parname] = SplitOn(status, ",")

\* the fitter takes the status for the parameter
Accepted(parname, status) ==
    IF parname = "background" THEN ParseInt(status).ok
    ELSE parname \in DOMAIN DefaultStatus
           /\ \A w \in Range(SplitOn(status, ",")) : w \in ValidStatus \/ ParseFloat(w).ok

\* the ids of a list that are stored fits of the active spectrum
ValidIds(ids) ==
    IF spectra.activeID = None THEN {}
    ELSE Range(ids) \cap Keys(spectra.objects[spectra.activeID[1]].fits)

\* C13: SetFitterParameter with a list of stored fit ids applies the status
\* to the work fit or reports the failure on the work fit as an error; for
\* the list no exception escapes, ids that are not stored are passed over
\* and every stored fit of the list holds the status afterwards.
C13_BestEffortList ==
    [][(ret'.op = "SetFitterParameter" /\ ret'.ids # <<>>) =>
          LET a == ret'.args
          IN  /\ ret'.exc = "none"
              /\ IF Accepted(a.parname, a.status)
                 THEN /\ HasParameter(heap'[workFit'], a.parname, a.status)
                      /\ \A k \in ValidIds(ret'.ids) :
                            HasParameter(StoredFit(SessionAfter, spectra.activeID[1], k),
                                         a.parname, a.status)
                 ELSE ret'.msg = "while editing active Fit"]_vars

\* C14: SetPeakModel and ResetFitterParameters with a list of stored fit
\* ids raise nothing for an id that is not stored, and every stored fit of
\* the list, also one after such an id, has its peak model set or its
\* parameter status reset.
C14_SilentInvalidIds ==
    [][(ret'.op \in {"SetPeakModel", "ResetFitterParameters"} /\ ret'.ids # <<>>
           /\ spectra.activeID # None) =>
          /\ ret'.exc = "none"
          /\ \A k \in ValidIds(ret'.ids) :
                LET fit == StoredFit(SessionAfter, spectra.activeID[1], k)
                IN  IF ret'.op = "SetPeakModel" THEN fit.peakModel = ret'.args.name
                    ELSE fit.status = DefaultStatus]_vars

(***************************************************************************)
(* Claims about the table of fits (checked under SpecList)                 *)
(***************************************************************************)
RECURSIVE PeaksBefore(_, _)
\* the number of peaks of the first j fits of a list
PeaksBefore(fits, j) ==
    IF j = 0 THEN 0 ELSE PeaksBefore(fits, j - 1) + Len(fits[j].peaks)

\* where p stands in the sequence ps, 0 when it is not in it
Place(ps, p) ==
    IF \E i \in 1..Len(ps) : ps[i] = p THEN CHOOSE i \in 1..Len(ps) : ps[i] = p ELSE 0

\* the fits with a peak that name the parameter p
Naming(fits, p) ==
    {j \in 1..Len(fits) : fits[j].peaks # <<>> /\ Place(ModelParams(fits[j].peakModel), p) > 0}

\* the first of a non-empty set of numbers
First(J) == CHOOSE j \in J : \A k \in J : j <= k

\* p is named before q: by an earlier fit, or earlier by the same fit
NamedBefore(fits, p, q) ==
    LET jp == First(Naming(fits, p))
        jq == First(Naming(fits, q))
    IN  \/ jp < jq
        \/ jp = jq /\ Place(ModelParams(fits[jp].peakModel), p)
                         < Place(ModelParams(fits[jp].peakModel), q)

\* how often x occurs in the sequence s
Count(s, x) == Cardinality({i \in 1..Len(s) : s[i] = x})

\* the stored fits a call of ListFits was about, in the order of its ids
Listed ==
    LET sid == IF ret'.args.sid = None THEN spectra.activeID[1] ELSE ret'.args.sid[1]
    IN  [n \in 1..Len(ret'.ids) |-> StoredFit(Session, sid, ret'.ids[n])]

\* C15: the rows ExtractFits returns are the peaks of the fits, fit after
\* fit in the order of the list; its columns are the parameter names of the
\* fits that have a peak, each once and in the order of first appearance;
\* a fit without peaks gives no row and no column; and the table ListFits
\* shows holds exactly these rows.
C15_ExtractFits ==
    [][(ret'.op = "ListFits" /\ ret'.msg = "table") =>
          \A fits \in {Listed}, t \in {ret'.value} :
              /\ Len(t.objects) = PeaksBefore(fits, Len(fits))
              /\ \A j \in 1..Len(fits) : \A i \in 1..Len(fits[j].peaks) :
                     t.objects[PeaksBefore(fits, j - 1) + i]
                         = [pos |-> fits[j].peaks[i], model |-> fits[j].peakModel]
              /\ \A a, b \in 1..Len(t.params) :
                     /\ Naming(fits, t.params[a]) # {}
                     /\ a < b => /\ t.params[a] # t.params[b]
                                 /\ NamedBefore(fits, t.params[a], t.params[b])
              /\ \A j \in 1..Len(fits) :
                     fits[j].peaks # <<>> =>
                         \A p \in Range(ModelParams(fits[j].peakModel)) :
                             Place(t.params, p) > 0
              /\ ret'.exc = "none" =>
                     /\ Len(t.rows) = Len(t.objects)
                     /\ \A n \in 1..Len(t.rows) :
                            Count(t.rows, t.rows[n]) = Count(t.objects, t.rows[n])]_vars

\* fit 0 has no peak and another peak model; the quick fit stored after it
\* is the one row of the listing, and the columns are those of its model
C15_Witness ==
    /\ ret.op = "ListFits"
    /\ ret.ids = <<0, 1>>
    /\ StoredFit(Session, 0, 0).peaks = <<>>
    /\ StoredFit(Session, 0, 0).peakModel = "ee"
    /\ ret.value.objects = <<[pos |-> FloatV(FALSE, 305, 1), model |-> "theuerkauf"]>>
    /\ ret.value.params = ModelParams("theuerkauf")

(***************************************************************************)
(* Claims about calibration lists and names (checked under SpecCal)        *)
(***************************************************************************)
\* the spectra of the container whose histogram has the name
Matching(c, name) ==
    {k \in Keys(c) : "fHist" \in DOMAIN c.objects[k] /\ c.objects[k].fHist = Some(name)}

\* what line n of the list asks for
LineOf(lines, n) == CHOOSE d \in CalLineSamples : d.text = lines[n]

\* the lines of a kind
LinesOf(lines, kind) == {n \in 1..Len(lines) : LineOf(lines, n).kind = kind}

\* the lines that give a calibration for the name
EntriesFor(lines, name) ==
    {n \in LinesOf(lines, "entry") : LineOf(lines, n).name = name}

\* the warnings of a kind, in their order
WarningsOf(ws, kind) == SeqFilterIn(ws, {w \in Range(ws) : w.kind = kind})

\* C16: ReadCalibrationList on a readable file returns True; blank lines
\* and comments do nothing; each malformed line gives one warning with its
\* line number and changes nothing, and the lines after it still count; a
\* line for the name of a spectrum sets the calibration of a spectrum of
\* that name to its coefficients (the last such line decides); a line for
\* a name no spectrum has changes nothing and is reported only with
\* warn_notfound.
C16_ReadCalibrationList ==
    [][(ret'.op = "ReadCalibrationList" /\ ret'.args.content # None) =>
          \A lines \in {ret'.args.content[1]} :
              /\ ret'.value = "True"
              /\ [i \in 1..Len(WarningsOf(ret'.warnings, "parse")) |->
                     WarningsOf(ret'.warnings, "parse")[i].line]
                    = SortedSeq(LinesOf(lines, "malformed"))
              /\ Len(WarningsOf(ret'.warnings, "notfound"))
                    = IF ret'.args.warn_notfound
                      THEN Cardinality({n \in LinesOf(lines, "entry") :
                                           Matching(spectra, LineOf(lines, n).name) = {}})
                      ELSE 0
              /\ Len(ret'.warnings) = Len(WarningsOf(ret'.warnings, "parse"))
                                        + Len(WarningsOf(ret'.warnings, "notfound"))
              /\ Keys(spectra') = Keys(spectra)
              /\ \A k \in Keys(spectra) :
                     /\ [spectra'.objects[k] EXCEPT !.cal = <<>>]
                           = [spectra.objects[k] EXCEPT !.cal = <<>>]
                     /\ spectra'.objects[k].cal
                           \in {spectra.objects[k].cal}
                                 \cup {LineOf(lines, n).coeff :
                                          n \in {m \in LinesOf(lines, "entry") :
                                                    k \in Matching(spectra, LineOf(lines, m).name)}}
              /\ \A name \in {LineOf(lines, n).name : n \in LinesOf(lines, "entry")} :
                     Matching(spectra, name) # {} =>
                         \E k \in Matching(spectra, name) :
                             spectra'.objects[k].cal
                                 = LineOf(lines, First(EntriesFor(lines, name) \
                                       {n \in EntriesFor(lines, name) :
                                           \E m \in EntriesFor(lines, name) : m > n})).coeff]_vars

\* a list of five lines was read: lines 2 and 4 are malformed, and line 5
\* after them gave spectrum b its calibration
C16_Witness ==
    /\ ret.op = "ReadCalibrationList"
    /\ ret.value = "True"
    /\ Len(ret.args.content[1]) = 5
    /\ Len(ret.warnings) = 2
    /\ ret.warnings[1].line = 2 /\ ret.warnings[2].line = 4
    /\ \E k \in Matching(spectra, <<"b">>) :
           spectra.objects[k].cal = <<FloatV(TRUE, 3, 0)>>

\* C20: FindSpectrumByName(name) returns a spectrum whose histogram has
\* the name when there is one, one of them when there are several, and None
\* exactly when there is none; it never returns an object of another name,
\* without a histogram, or that is no spectrum.
C20_FindSpectrumByName ==
    [][ret'.op = "FindSpectrumByName" =>
          /\ ret'.ids = None <=> Matching(spectra, ret'.args.name) = {}
          /\ ret'.ids # None => ret'.ids[1] \in Matching(spectra, ret'.args.name)]_vars

\* of two spectra named a, the one with the larger id was returned
C20_Witness ==
    /\ ret.op = "FindSpectrumByName"
    /\ ret.ids = Some(1)
    /\ Matching(spectra, <<"a">>) = {0, 1}

(***************************************************************************)
(* Claims about the decomposition display (checked under SpecDecomp)       *)
(***************************************************************************)
\* a call of SetDecomposition(v), direct or as the change callback of a
\* successful `config set fit.display.decomp`
DecompositionSet(v) ==
    \/ ret'.op = "SetDecomposition" /\ ret'.args.default_enable = v
    \/ /\ cmd'.op = "set" /\ cmd'.var = "fit.display.decomp" /\ cmd'.result = "ok"
       /\ variables'["fit.display.decomp"].value = BoolV(v)

\* the fit but for its decomposition flag
Undecomposed(fit) == [fit EXCEPT !.decomp = FALSE]

\* C17: SetDecomposition(v), also as the callback of a successful `config
\* set fit.display.decomp`, sets the decomposition flag of the work fit and
\* of every stored fit of every spectrum to v and changes nothing else:
\* markers, fit ids, active ids and visible sets stay as they were.
C17_SetDecomposition ==
    [][\A v \in BOOLEAN : DecompositionSet(v) =>
          /\ heap'[workFit'].decomp = v
          /\ \A i \in Keys(spectra) : \A k \in Keys(spectra.objects[i].fits) :
                 StoredFit(SessionAfter, i, k).decomp = v
          /\ spectra' = spectra
          /\ workFit' = workFit
          /\ viewport' = viewport
          /\ DOMAIN heap' = DOMAIN heap
          /\ \A r \in DOMAIN heap : Undecomposed(heap'[r]) = Undecomposed(heap[r])]_vars

\* `config set fit.display.decomp true` has reached the stored fit of a
\* spectrum that is not the active one, on a work fit that holds a marker
C17_Witness ==
    /\ cmd.op = "set" /\ cmd.var = "fit.display.decomp" /\ cmd.result = "ok"
    /\ spectra.activeID = Some(0)
    /\ spectra.visible = {1}
    /\ StoredFit(Session, 1, 0).decomp
    /\ StoredFit(Session, 0, 1).decomp
    /\ heap[workFit].decomp
    /\ heap[workFit].peak # <<>>


\* ---------------------------------------------------------------------------
\* C19  spectrum activate / activate hotkey with an id that is not a key
\* ---------------------------------------------------------------------------

\* The argument is a well-formed integer that is no key of the Spectra container.
MissingId(arg) == ParseInt(arg).ok /\ ParseInt(arg).v \notin Keys(spectra)

\* C19: activating a spectrum with a well-formed integer id that is not a key
\* of the Spectra container, through the spectrum activate command or through
\* the activate hotkey, lets no exception escape the handler and leaves the
\* active id as it was before the call.
C19_ActivateMissingId ==
    [][ /\ \A args \in {a \in IdArgs : Len(a) = 1} :
              (MissingId(args[1]) /\ SpectrumActivate(args))
                  => (ret'.exc = "none" /\ spectra'.activeID = spectra.activeID)
        /\ \A arg \in HotkeyArgs :
              (MissingId(arg) /\ HotkeyActivate(arg))
                  => (ret'.exc = "none" /\ spectra'.activeID = spectra.activeID) ]_vars


\* ---------------------------------------------------------------------------
\* C18  Dispatch: the longest registered path that is a prefix of the input
\* ---------------------------------------------------------------------------

FitShowPath == <<<<"f", "i", "t">>, <<"s", "h", "o", "w">>>>

FitShowDecompPath == <<<<"f", "i", "t">>, <<"s", "h", "o", "w">>, <<"d", "e", "c", "o", "m", "p", "o", "s", "i", "t", "i", "o", "n">>>>

Paths == {c.path : c \in RegisteredCommands}

\* the handler of the longest registered path that is a prefix of the tokens
LongestMatch(tokens) ==
    CHOOSE c \in Matches(RegisteredCommands, tokens) :
        \A d \in Matches(RegisteredCommands, tokens) : Len(d.path) <= Len(c.path)

\* the step invokes the handler of the command c with the tokens after the
\* first n, unless they are no arguments of the command
Invokes(c, n) ==
    /\ ret'.exc \in {"none", "ArgumentError"}
    /\ ret'.exc = "none" =>
           /\ ret'.value = c.handler
           /\ ret'.ids = SubSeq(ret'.args, n + 1, Len(ret'.args))
    /\ ret'.exc # "none" => ret'.value = "None"

\* the step invokes no handler and fails with UnknownCommand
Unknown == ret'.exc = "UnknownCommand" /\ ret'.value = "None"

\* "fit show decomposition ..." reaches FitShowDecomp and never FitShow
ReachesShowDecomp ==
    ({FitShowPath, FitShowDecompPath} \subseteq Paths /\ IsPrefix(FitShowDecompPath, ret'.args))
        => /\ ret'.value # "FitShow"
           /\ ret'.exc = "none" => ret'.value = "FitShowDecomp"

\* C18 as stated: Dispatch invokes the handler of the longest registered
\* command path that is a prefix of the input tokens and no other handler:
\* input starting with "fit show decomposition" reaches FitShowDecomp and
\* never FitShow; input of which no registered path is a prefix fails with
\* UnknownCommand and invokes no handler.
C18_LongestPathOrUnknown ==
    [][ret'.op = "Dispatch" =>
           /\ Matches(RegisteredCommands, ret'.args) # {}
                  => Invokes(LongestMatch(ret'.args), Len(LongestMatch(ret'.args).path))
           /\ ReachesShowDecomp
           /\ Matches(RegisteredCommands, ret'.args) = {} => Unknown ]_vars

\* the first n tokens name a group of commands of which c alone has the lowest
\* level, and no more tokens name a group
Abbreviates(tokens, n, c) ==
    /\ Group(RegisteredCommands, tokens, n) # {}
    /\ \A m \in (n + 1)..Len(tokens) : Group(RegisteredCommands, tokens, m) = {}
    /\ c \in Group(RegisteredCommands, tokens, n)
    /\ \A d \in Group(RegisteredCommands, tokens, n) : d # c => c.level < d.level

\* C18: Dispatch invokes the handler of the longest registered command path
\* that is a prefix of the input tokens and no other handler: input starting
\* with "fit show decomposition" reaches FitShowDecomp and never FitShow.
\* Input of which no registered path is a prefix invokes the one command of
\* lowest level among the commands its leading tokens begin ("fit 0" reaches
\* FitExecute, registered with level 0); without such a command it fails with
\* UnknownCommand and invokes no handler.
C18_Dispatch ==
    [][ret'.op = "Dispatch" =>
           /\ Matches(RegisteredCommands, ret'.args) # {}
                  => Invokes(LongestMatch(ret'.args), Len(LongestMatch(ret'.args).path))
           /\ ReachesShowDecomp
           /\ Matches(RegisteredCommands, ret'.args) = {}
                  => /\ \A n \in 1..Len(ret'.args), c \in RegisteredCommands :
                            Abbreviates(ret'.args, n, c) => Invokes(c, n)
                     /\ (\A n \in 1..Len(ret'.args), c \in RegisteredCommands :
                            ~Abbreviates(ret'.args, n, c)) => Unknown ]_vars

\* "fit show decomposition 0" was dispatched to FitShowDecomp
C18_Witness ==
    /\ ret.op = "Dispatch"
    /\ ret.value = "FitShowDecomp"
    /\ IsPrefix(FitShowDecompPath, ret.args)
    /\ {FitShowPath, FitShowDecompPath} \subseteq Paths


\* ---------------------------------------------------------------------------
\* C27  config reset without a variable name
\* ---------------------------------------------------------------------------

\* some option has a value that is not its default
SomeOptionChanged == \E n \in DOMAIN variables : variables[n].value # variables[n].default

\* C27: config reset called without a variable name resets nothing: the value
\* of every registered option is the same after the command as before, and the
\* command only prints the current configuration.
C27_ResetWithoutName ==
    [][(cmd'.op = "reset" /\ cmd'.var = "")
           => /\ \A n \in DOMAIN variables :
                     n \in DOMAIN variables' /\ variables'[n].value = variables[n].value
              /\ DOMAIN variables' = DOMAIN variables
              /\ cmd'.msg = "listing"]_vars

\* config reset without a name was given while an option had a value of its own
C27_Witness == cmd.op = "reset" /\ cmd.var = "" /\ SomeOptionChanged


\* ---------------------------------------------------------------------------
\* C25  fit execute and the active spectrum
\* ---------------------------------------------------------------------------

\* C25 as stated: fit execute leaves the active spectrum as it found it: when a
\* spectrum was active before the command, the same spectrum is active after
\* it, for every combination of spectrum ids, fit ids, quick and store flags.
C25_ActiveSpectrumKept ==
    [][(ret'.op = "FitExecute" /\ spectra.activeID # None)
           => spectra'.activeID = spectra.activeID]_vars


\* ---------------------------------------------------------------------------
\* C26  LoadSpectra and the lock of the viewport updates
\* ---------------------------------------------------------------------------

\* C26: LoadSpectra locks the viewport updates once before the first mutation
\* and unlocks them once after the last: however the call ends, the unlocks
\* are as many as the locks, no spectrum was stored while the updates were not
\* locked, and the viewport is not left locked.
C26_LockBracket ==
    [][ret'.op \in {"LoadSpectra", "SpectrumGet"}
           => /\ ret'.args.locks = 1
              /\ ret'.args.unlocks = 1
              /\ ret'.args.bare = 0
              /\ viewport'.locks = viewport.locks
              /\ viewport'.locks = 0]_vars

\* a call of LoadSpectra that stored a spectrum and failed to read another file
C26_Witness ==
    /\ ret.op \in {"LoadSpectra", "SpectrumGet"}
    /\ ret.loaded # <<>>
    /\ ret.warnings # <<>>
    /\ ret.args.locks = 1


\* ---------------------------------------------------------------------------
\* C23  SetFitterParameter does not roll back
\* ---------------------------------------------------------------------------

\* the application to the stored fit at position j of the list fails: the id is
\* no stored fit of the active spectrum, or there is no active spectrum
FailsAt(ids, j) ==
    \/ spectra.activeID = None
    \/ ids[j] \notin Keys(spectra.objects[spectra.activeID[1]].fits)

\* C23: applying a parameter status to the work fit and a list of stored fits
\* is not atomic: when the application to a stored fit of the list fails, the
\* change already made to the work fit and to the stored fits earlier in the
\* list is kept.
C23_NoRollback ==
    [][(ret'.op = "SetFitterParameter" /\ Accepted(ret'.args.parname, ret'.args.status))
           => \A j \in 1..Len(ret'.ids) :
                 FailsAt(ret'.ids, j)
                     => /\ HasParameter(heap'[workFit'], ret'.args.parname, ret'.args.status)
                        /\ \A i \in 1..(j - 1) :
                              ~FailsAt(ret'.ids, i)
                                  => HasParameter(StoredFit(SessionAfter, spectra.activeID[1],
                                                            ret'.ids[i]),
                                                  ret'.args.parname, ret'.args.status)]_vars

\* the status was applied to the list 1, 5, 0 of which 5 is no stored fit
C23_Witness ==
    /\ ret.op = "SetFitterParameter"
    /\ ret.ids = <<1, 5, 0>>
    /\ Accepted(ret.args.parname, ret.args.status)
    /\ spectra.activeID # None
    /\ 1 \in Keys(spectra.objects[spectra.activeID[1]].fits)
    /\ 5 \notin Keys(spectra.objects[spectra.activeID[1]].fits)
    /\ HasParameter(heap[workFit], ret.args.parname, ret.args.status)


\* ---------------------------------------------------------------------------
\* C24  fit activate and the hotkey to activate a fit
\* ---------------------------------------------------------------------------

\* the active fit of the spectrum i in the session S
ActiveFit(S, i) == S.spectra.objects[i].fits.activeID

\* the ids the expression of the step resolves to in the active spectrum
Resolved == ParseIds(ret'.args, spectra.objects[spectra.activeID[1]].fits, TRUE)

\* C24: fit activation, by the command and by the hotkey, changes the active
\* fit only when the id expression resolves to at most one fit: exactly one id
\* activates that fit, zero ids deactivate the active fit, more than one id
\* reports "Can only activate one fit" and leaves the active fit unchanged;
\* with no active spectrum nothing is changed.
C24_FitActivation ==
    [][ret'.op \in {"FitActivate", "FitHotkeyActivate"}
           => IF spectra.activeID = None
              THEN /\ spectra' = spectra /\ heap' = heap /\ workFit' = workFit
                   /\ ret'.msg = "No active spectrum"
              ELSE /\ Keys(spectra') = Keys(spectra)
                   /\ spectra'.activeID = spectra.activeID
                   /\ \A i \in Keys(spectra) \ {spectra.activeID[1]} :
                          ActiveFit(SessionAfter, i) = ActiveFit(Session, i)
                   /\ \A p \in {Resolved} :
                          CASE p.exc # "none" ->
                                 ActiveFit(SessionAfter, spectra.activeID[1])
                                     = ActiveFit(Session, spectra.activeID[1])
                            [] p.exc = "none" /\ Len(p.ids) = 1 ->
                                 ActiveFit(SessionAfter, spectra.activeID[1])
                                     = Some(p.ids[1].major)
                            [] p.exc = "none" /\ Len(p.ids) = 0 ->
                                 ActiveFit(SessionAfter, spectra.activeID[1]) = None
                            [] OTHER ->
                                 /\ ret'.msg = "Can only activate one fit"
                                 /\ ActiveFit(SessionAfter, spectra.activeID[1])
                                        = ActiveFit(Session, spectra.activeID[1]) ]_vars

\* fit activate with two ids was refused while a fit was active
C24_Witness ==
    /\ ret.op = "FitActivate"
    /\ ret.msg = "Can only activate one fit"
    /\ Len(ret.ids) = 2
    /\ spectra.activeID # None
    /\ ActiveFit(Session, spectra.activeID[1]) # None


\* ---------------------------------------------------------------------------
\* C21  cd
\* ---------------------------------------------------------------------------

\* the directory exists and it and the directories above it may be entered
Enterable(dir) ==
    \A n \in 0..Len(dir) : SubSeq(dir, 1, n) \in Directories \ Forbidden

\* the names of an absolute path without "." and ".."
PlainNames(path) == DropEmpty(SplitOn(path, "/"))

IsAbsolute(path) ==
    /\ path # <<>> /\ path[1] = "/"
    /\ \A n \in Range(PlainNames(path)) : n \notin {<<".">>, <<".", ".">>}

IsName(path) ==
    /\ path # <<>> /\ "/" \notin Range(path) /\ path[1] # "~"
    /\ path \notin {<<".">>, <<".", ".">>}

\* the step goes to the directory if it can be entered, and else reports the
\* failure and stays
GoesTo(dir) ==
    IF Enterable(dir) THEN cwd' = dir /\ ret'.msg = "none"
    ELSE cwd' = cwd /\ ret'.msg = "OSError"

\* C21: cd moves the working directory to its argument resolved against the
\* current working directory (an absolute path, a relative name, or ".."), with
\* no or an empty argument it leaves the working directory unchanged, and a
\* directory that cannot be entered is reported and leaves it unchanged too.
C21_Cd ==
    [][ret'.op = "Cd" =>
           /\ ret'.exc = "none"
           /\ (ret'.args = <<>> \/ ret'.args = << <<>> >>) => cwd' = cwd
           /\ \A path \in Range(ret'.args) :
                  /\ IsAbsolute(path) => GoesTo(PlainNames(path))
                  /\ IsName(path) => GoesTo(Append(cwd, path))
                  /\ path = <<".", ".">> => GoesTo(Parent(cwd)) ]_vars

\* cd a was given in /tmp
C21_Witness ==
    /\ ret.op = "Cd"
    /\ ret.args = << <<"a">> >>
    /\ cwd = << <<"t", "m", "p">>, <<"a">> >>


\* ---------------------------------------------------------------------------
\* C22  the calibration commands over an id list
\* ---------------------------------------------------------------------------

CalOps == {"CalPosRead", "CalPosEnter", "CalPosSet"}

\* the step is a calibration command whose leading arguments were read and
\* that names the ids S
WithIdList(S) ==
    /\ ret'.op \in CalOps
    /\ ret'.args.ok
    /\ ret'.args.idargs # <<>>
    /\ ParseRange(ret'.args.idargs).kind = "ids"
    /\ ParseRange(ret'.args.idargs).ids = S

=========================================================================
